---- MODULE Spec2Model ----
(***************************************************************************)
(* A model of the command processing pipeline of ai-shell.                 *)
(*                                                                         *)
(*   Spec    CommandProcessor.process_command of ai_shell/command.py (the  *)
(*           retry loop used by cli.py) together with                      *)
(*           AIShell.process_command of ai_shell/ai_shell.py               *)
(*   SpecV2  AIShell.process_command_v2 driving                            *)
(*           CommandProcessor.process_command of                           *)
(*           ai_shell/command/command_processor.py                         *)
(*                                                                         *)
(* Texts are sequences of tokens.  A token is a word, one white-space      *)
(* character, one backtick (BT), or a fixed phrase of the program ("Error:").   *)
(* str.strip, str.split, str.join and str.startswith are computed on these *)
(* sequences.  The language model, the child process, the cache database   *)
(* and the user are the environment: their answers are drawn from the      *)
(* small sets below.                                                       *)
(***************************************************************************)
EXTENDS Integers, Sequences, FiniteSets, TLC

VARIABLES
    pc,                      \* position of the running invocation
    loc,                     \* locals of the running invocation
    obs,                     \* observations of the running invocation
    ret,                     \* how the last invocation ended
    history,                 \* CommandProcessor.history / history_manager.history
    cache,                   \* the rows of table cache of cache.db, by prompt
    last_generated_command,  \* CommandProcessor.last_generated_command
    now,                     \* time.time()
    invocations,             \* invocations started so far
    db_faults,               \* errors of the cache database so far
    tasks,                   \* coroutines in flight: saves of the history, writes of the cache
    disk                     \* ai_command_history.json

vars == <<pc, loc, obs, ret, history, cache, last_generated_command, now, invocations,
          db_faults, tasks, disk>>

-----------------------------------------------------------------------------
(* Bounds of the model *)

MaxInvocations == 1

MaxDbFaults == 1

-----------------------------------------------------------------------------
(* Program constants *)

MAX_RETRIES == 3

CACHE_TTL == 3600

default_timeout == 120

T0 == 2 * CACHE_TTL

-----------------------------------------------------------------------------
(* Texts *)

None == <<"<None>">>

Empty == <<>>

WS == {" ", "\n", "\t"}

RECURSIVE LStripChars(_, _)
LStripChars(s, chars) ==
    IF s = <<>> THEN s
    ELSE IF Head(s) \in chars THEN LStripChars(Tail(s), chars)
    ELSE s

RECURSIVE RStripChars(_, _)
RStripChars(s, chars) ==
    IF s = <<>> THEN s
    ELSE IF s[Len(s)] \in chars THEN RStripChars(SubSeq(s, 1, Len(s) - 1), chars)
    ELSE s

StripChars(s, chars) == RStripChars(LStripChars(s, chars), chars)

Strip(s) == StripChars(s, WS)

RECURSIVE SplitOn(_, _, _)
SplitOn(s, sep, cur) ==
    IF s = <<>> THEN <<cur>>
    ELSE IF Head(s) = sep THEN <<cur>> \o SplitOn(Tail(s), sep, <<>>)
    ELSE SplitOn(Tail(s), sep, Append(cur, Head(s)))

Split(s, sep) == SplitOn(s, sep, <<>>)

RECURSIVE Join(_, _)
Join(parts, sep) ==
    IF parts = <<>> THEN <<>>
    ELSE IF Len(parts) = 1 THEN parts[1]
    ELSE parts[1] \o <<sep>> \o Join(Tail(parts), sep)

StartsWith(s, prefix) ==
    Len(s) >= Len(prefix) /\ SubSeq(s, 1, Len(prefix)) = prefix

Contains(s, tok) == \E i \in 1..Len(s) : s[i] = tok

RECURSIVE Words(_)
Words(s) ==
    IF s = <<>> THEN <<>>
    ELSE IF Head(s) \in WS THEN Words(Tail(s))
    ELSE <<Head(s)>> \o Words(Tail(s))

Truthy(x) == x # None /\ x # <<>>

-----------------------------------------------------------------------------
(* Inputs: what the user, the language model and the child process supply *)

I_list == <<"list", " ", "files">>

I_alias == <<"ll", " ", "docs">>

Instructions == {I_list}

Aliases == [a \in {"ll"} |-> <<"ls", " ", "-la">>]

R_empty == <<>>

R_blank == <<" ", "\n">>

R_comment == <<"#", " ", "nothing to do">>

BT == "<backtick>"

R_fenced == <<BT, BT, BT, "\n", "ls", "\n", BT, BT, BT>>

Contents == {R_empty, R_blank, R_comment, R_fenced}

LlmOutcomes ==
    {[kind |-> "raise"]} \cup {[kind |-> "content", text |-> c] : c \in Contents}

TimedOutPhrase == "Command execution timed out"

ChildOutcomes ==
    { [kind |-> "exit", rc |-> 0, stdout |-> <<"O1", "\n">>, stderr |-> <<>>],
      [kind |-> "exit", rc |-> 0, stdout |-> <<"Error:", " ", "0 matches", "\n">>, stderr |-> <<>>],
      [kind |-> "exit", rc |-> 1, stdout |-> <<>>, stderr |-> <<"E1", "\n">>],
      [kind |-> "exit", rc |-> 1, stdout |-> <<>>, stderr |-> <<"curl:", " ", TimedOutPhrase>>],
      [kind |-> "timeout"],
      [kind |-> "oserror", msg |-> <<"Permission denied">>] }

NoChild == [kind |-> "none"]

\* a script that never ends: communicate() does not return
Slow == [kind |-> "slow"]

\* a script together with the seconds it runs before communicate() returns
P1ChildOutcomes ==
    {[child |-> c, after |-> 0] : c \in ChildOutcomes}
        \cup {[child |-> c, after |-> default_timeout + 1] :
                 c \in {c \in ChildOutcomes : c.kind = "exit" /\ c.stdout \o c.stderr = <<"O1", "\n">>}}
        \cup {[child |-> Slow, after |-> 0]}

\* what the user answers to "Press [Enter] to execute, [e] to edit, or [q] to quit"
Choices == {<<>>, <<"e">>, <<"q">>}

\* a script of two lines, the first an echo the pipeline interprets itself
R_echo == <<"echo", " ", "INFO:", "start", "\n", "ls">>

ContentsV2 == {R_empty, R_comment, R_echo}

LlmOutcomesV2 ==
    {[kind |-> "raise"]} \cup {[kind |-> "content", text |-> c] : c \in ContentsV2}

\* what the user may type when editing the generated command
Edits == {<<"ls", " ", "-l">>, <<"clone", " ", "repo">>}

\* what the user may answer to a USER_INPUT: line of a script
UserInputs == {<<"q">>, <<"y">>}

RcText(rc) == IF rc = 0 THEN "0" ELSE IF rc = 1 THEN "1" ELSE "2"

-----------------------------------------------------------------------------
(* utils/cache.py *)

NoRow == [generated_command |-> None, output |-> None]

check_cacheInclusive(db, prompt, t) ==
    IF prompt \in DOMAIN db /\ t - db[prompt].timestamp <= CACHE_TTL
    THEN [generated_command |-> db[prompt].generated_command, output |-> db[prompt].output]
    ELSE [generated_command |-> None, output |-> None]

\* check_cache: the row of the prompt, unless it is absent or too old
check_cache(db, prompt, t) ==
    IF prompt \in DOMAIN db /\ t - db[prompt].timestamp < CACHE_TTL
    THEN [generated_command |-> db[prompt].generated_command, output |-> db[prompt].output]
    ELSE NoRow

save_cacheKeepRow(db, command, generated_command, output, t) ==
    LET output_str == IF output # None THEN output ELSE <<>>
        row == [generated_command |-> generated_command, output |-> output_str, timestamp |-> t]
    IN [k \in DOMAIN db \cup {command} |-> IF k \in DOMAIN db THEN db[k] ELSE row]

\* save_cache: INSERT OR REPLACE of the row of the prompt
save_cache(db, command, generated_command, output, t) ==
    LET output_str == IF output # None THEN output ELSE <<>>
        row == [generated_command |-> generated_command, output |-> output_str, timestamp |-> t]
    IN [k \in DOMAIN db \cup {command} |-> IF k = command THEN row ELSE db[k]]

-----------------------------------------------------------------------------
(* ai_shell/command.py: the helpers of CommandProcessor *)

\* resolve_alias: the expansion of the first word, then the other words
resolve_alias(command) ==
    LET parts == Words(command)
    IN IF parts # <<>> /\ parts[1] \in DOMAIN Aliases
       THEN Aliases[parts[1]] \o <<" ">>
            \o Join([i \in 1..(Len(parts) - 1) |-> <<parts[i + 1]>>], " ")
       ELSE None

ai_generate_commandUnstripped(llm) ==
    IF llm.kind = "raise" THEN [raised |-> TRUE, response |-> None]
    ELSE [raised |-> FALSE, response |-> llm.text]

\* OpenRouterAI.generate_command returns the stripped content, or raises
ai_generate_command(llm) ==
    IF llm.kind = "raise" THEN [raised |-> TRUE, response |-> None]
    ELSE [raised |-> FALSE, response |-> Strip(llm.text)]

\* generate_command_from_prompt: a falsy response becomes None, an error is raised again
generate_command_from_prompt(llm) ==
    LET r == ai_generate_command(llm)
    IN IF r.raised THEN r
       ELSE IF Truthy(r.response) THEN r
       ELSE [raised |-> FALSE, response |-> None]

\* CommandProcessor.generate_ai_response: every error of the generation becomes None
generate_ai_response(llm) ==
    LET r == generate_command_from_prompt(llm)
    IN IF r.raised THEN None ELSE r.response

\* CommandProcessor.extract_commands
extract_commands(ai_response) ==
    LET stripped == StripChars(ai_response, {BT})
        lines == Split(stripped, "\n")
        script == Join(lines, "\n")
    IN IF Strip(script) = <<>>
          \/ \A i \in 1..Len(lines) : StartsWith(Strip(lines[i]), <<"#">>)
       THEN <<>>
       ELSE <<script>>

TimeoutMessage ==
    <<"Error:", " ", TimedOutPhrase, " ", "after", " ", "120", " ", "seconds.">>

command_outputBare(command, simulation_mode, child) ==
    IF simulation_mode THEN <<<<"[Simulation] Would execute:", "\n">> \o command>>
    ELSE IF child.kind = "exit" /\ child.rc = 0 THEN Split(Strip(child.stdout), "\n")
    ELSE IF child.kind = "exit"
    THEN <<<<"Error:", " ", "Command exited with status", " ", RcText(child.rc), "\n">>
           \o Strip(child.stderr)>>
    ELSE IF child.kind = "timeout" THEN <<TimeoutMessage>>
    ELSE <<child.msg>>

\* the lines one command adds to the output of execute_commands
command_output(command, simulation_mode, child) ==
    IF simulation_mode THEN <<<<"[Simulation] Would execute:", "\n">> \o command>>
    ELSE IF child.kind = "exit" /\ child.rc = 0 THEN Split(Strip(child.stdout), "\n")
    ELSE IF child.kind = "exit"
    THEN <<<<"Error:", " ", "Command exited with status", " ", RcText(child.rc), "\n">>
           \o Strip(child.stderr)>>
    ELSE IF child.kind = "timeout" THEN <<TimeoutMessage>>
    ELSE <<<<"Error:", " ", "Command execution failed:", " ">> \o child.msg>>

\* CommandProcessor.execute_commands: extract_commands yields at most one command
execute_commands(commands, simulation_mode, child) ==
    IF commands = <<>> THEN <<>>
    ELSE Join(command_output(commands[1], simulation_mode, child), "\n")

\* how many child processes execute_commands spawns
spawned(commands, simulation_mode) ==
    IF commands # <<>> /\ ~simulation_mode THEN 1 ELSE 0

IsError(output) == StartsWith(output, <<"Error:">>)

\* "Command execution timed out" in output
IsTimeoutOutput(output) == Contains(output, TimedOutPhrase)

RetryAllowedOnceMore(retry) == retry < MAX_RETRIES

\* retry < MAX_RETRIES - 1: another iteration of the loop follows
RetryAllowed(retry) == retry < MAX_RETRIES - 1

\* the instruction of the next attempt after a failed execution
FeedbackPrompt(output, command) ==
    <<"The previous command failed with the following error:", " ">> \o output
    \o <<"\n", "Please provide a corrected version of the command to address this error and continue with the original request:", " ">>
    \o command

\* CommandProcessor.append_to_history
HistoryEntry(command, output, ai_response, status, error_message, used_cache, t) ==
    [command |-> command, output |-> output, ai_response |-> ai_response,
     status |-> status, error_message |-> error_message, used_cache |-> used_cache,
     timestamp |-> t]

append_to_history(h, command, output, ai_response, status, error_message, used_cache, t) ==
    Append(h, HistoryEntry(command, output, ai_response, status, error_message, used_cache, t))

\* the status that handle_command_output records
OutputStatus(output) == IF ~IsError(output) THEN "Success" ELSE "Error"

-----------------------------------------------------------------------------
(* State of an invocation *)

Loc0 ==
    [command |-> <<>>, simulation_mode |-> FALSE, use_cache |-> TRUE, retry |-> 0,
     ai_response |-> None, commands |-> <<>>, output |-> <<>>, shell_command |-> <<>>,
     lines |-> <<>>, i |-> 1, results |-> <<>>, recording |-> FALSE]

Obs0 ==
    [entry |-> "none", orig |-> <<>>, genCalls |-> 0, execCalls |-> 0, trail |-> <<>>,
     histBase |-> 0, cacheBase |-> <<>>, given |-> <<>>,
     choice |-> None]

NoRet == [kind |-> "none"]

Returned(v) == [kind |-> "value", val |-> v]

Raised(origin) == [kind |-> "raised", origin |-> origin]

\* one loop iteration as observed: the prompt sent, the response, what was run
Attempt(prompt, llm, response, fault) ==
    [prompt |-> prompt, raw |-> (IF llm.kind = "raise" THEN None ELSE llm.text),
     response |-> response, script |-> None, child |-> NoChild, output |-> None,
     fault |-> fault, overdue |-> FALSE]

SetLast(trail, f, v) == [trail EXCEPT ![Len(trail)] = [@ EXCEPT ![f] = v]]

\* cache.db outlives the process: the rows an earlier run may have left
SeedRow(output, age) ==
    [k \in {I_list} |->
        [generated_command |-> R_fenced, output |-> output, timestamp |-> T0 - age]]

InitCaches ==
    {<<>>, SeedRow(<<"O1">>, 60), SeedRow(<<>>, 60), SeedRow(<<"O1">>, CACHE_TTL)}

\* an error of the database may happen while the budget of the model lasts
Count(db_fault) ==
    /\ db_fault => db_faults < MaxDbFaults
    /\ db_faults' = db_faults + (IF db_fault THEN 1 ELSE 0)

Init ==
    /\ pc = "idle"
    /\ loc = Loc0
    /\ obs = Obs0
    /\ ret = NoRet
    /\ history = <<>>
    /\ cache \in InitCaches
    /\ last_generated_command = <<>>
    /\ now = T0
    /\ invocations = 0
    /\ db_faults = 0
    /\ tasks = <<>>
    /\ disk = <<>>

-----------------------------------------------------------------------------
(* ai_shell/command.py: CommandProcessor.process_command *)

\* the call, with the alias resolved
P1_Start(command, simulation_mode) ==
    /\ pc = "idle"
    /\ invocations < MaxInvocations
    /\ invocations' = invocations + 1
    /\ LET aliased == resolve_alias(command)
           resolved == IF Truthy(aliased) THEN aliased ELSE command
       IN /\ loc' = [Loc0 EXCEPT !.command = resolved, !.simulation_mode = simulation_mode]
          /\ obs' = [Obs0 EXCEPT !.entry = "command.py", !.orig = resolved, !.given = command,
                                 !.histBase = Len(history), !.cacheBase = cache]
    /\ ret' = NoRet
    /\ pc' = "p1_check_cache"
    /\ UNCHANGED <<history, cache, last_generated_command, now, db_faults>>
    /\ UNCHANGED <<tasks, disk>>

\* self.check_cache and the cached return; an error of the database is not caught
P1_CheckCache(db_fault) ==
    /\ pc = "p1_check_cache"
    /\ IF db_fault
       THEN /\ ret' = Raised("cache")
            /\ pc' = "done"
            /\ UNCHANGED <<history, last_generated_command>>
       ELSE LET row == check_cache(cache, loc.command, now)
            IN IF Truthy(row.output)
               THEN /\ last_generated_command' =
                          (IF Truthy(row.generated_command) THEN row.generated_command
                           ELSE loc.command)
                    /\ history' = append_to_history(history, loc.command, row.output,
                                      row.generated_command, "Success (Cached)", None, TRUE, now)
                    /\ ret' = Returned(row.output)
                    /\ pc' = "done"
               ELSE /\ pc' = "p1_generate"
                    /\ UNCHANGED <<history, last_generated_command, ret>>
    /\ Count(db_fault)
    /\ UNCHANGED <<loc, obs, cache, now, invocations>>
    /\ UNCHANGED <<tasks, disk>>

\* the except clause of the loop: another attempt, or an Error entry and None
P1_Except(trail) ==
    IF RetryAllowed(loc.retry)
    THEN /\ loc' = [loc EXCEPT !.retry = @ + 1]
         /\ pc' = "p1_generate"
         /\ UNCHANGED <<ret>>
         /\ history' = trail
    ELSE /\ history' = append_to_history(trail, loc.command, <<>>, None, "Error",
                           <<"An error occurred:">>, FALSE, now)
         /\ ret' = Returned(None)
         /\ pc' = "done"
         /\ UNCHANGED <<loc>>

\* one generation: an empty response is retried, the last one is recorded as Error
P1_Generate(llm) ==
    /\ pc = "p1_generate"
    /\ LET ai_response == generate_ai_response(llm)
           fault == IF llm.kind = "raise" THEN "llm" ELSE "none"
           seen == [obs EXCEPT !.genCalls = @ + 1,
                               !.trail = Append(@, Attempt(loc.command, llm, ai_response, fault))]
       IN /\ obs' = seen
          /\ IF ~Truthy(ai_response)
             THEN IF RetryAllowed(loc.retry)
                  THEN /\ loc' = [loc EXCEPT !.retry = @ + 1, !.ai_response = ai_response]
                       /\ UNCHANGED <<pc, history, ret, last_generated_command>>
                  ELSE /\ history' = append_to_history(history, loc.command, <<>>, None,
                                         "Error", <<"Failed to generate AI response">>, FALSE, now)
                       /\ ret' = Returned(None)
                       /\ pc' = "done"
                       /\ loc' = [loc EXCEPT !.ai_response = ai_response]
                       /\ UNCHANGED <<last_generated_command>>
             ELSE /\ loc' = [loc EXCEPT !.ai_response = ai_response,
                                        !.commands = extract_commands(ai_response)]
                  /\ last_generated_command' = ai_response
                  /\ pc' = "p1_execute"
                  /\ UNCHANGED <<history, ret>>
    /\ UNCHANGED <<cache, now, invocations, db_faults>>
    /\ UNCHANGED <<tasks, disk>>

\* the wait loop of execute_commands: every one-second wait that expires is
\* swallowed and the loop goes on until communicate() returns
RECURSIVE communicate_loop(_, _)
communicate_loop(after, waited) ==
    IF after <= waited THEN waited ELSE communicate_loop(after, waited + 1)

\* execute_commands and what process_command does with its output
P1_Execute(run) ==
    /\ pc = "p1_execute"
    /\ run.child.kind \in {"exit", "slow"} \/ run.after = 0
    /\ LET child == run.child
           n == spawned(loc.commands, loc.simulation_mode)
           t1 == IF n > 0
                 THEN SetLast(SetLast(obs.trail, "script", loc.commands[1]), "child", child)
                 ELSE obs.trail
       IN IF n > 0 /\ child = Slow
          THEN /\ obs' = [obs EXCEPT !.execCalls = @ + n, !.trail = t1]
               /\ pc' = "p1_wait"
               /\ UNCHANGED <<loc, history, ret>>
          ELSE LET output == execute_commands(loc.commands, loc.simulation_mode, child)
                   waited == IF n > 0 THEN communicate_loop(run.after, 0) ELSE 0
                   t2 == SetLast(t1, "overdue", waited >= default_timeout)
               IN /\ obs' = [obs EXCEPT !.execCalls = @ + n,
                                        !.trail = SetLast(t2, "output", output)]
                  /\ IF IsError(output) /\ IsTimeoutOutput(output)
                     THEN /\ history' = append_to_history(history, loc.command, output,
                                            loc.ai_response, "Timeout", output, FALSE, now)
                          /\ ret' = Returned(output)
                          /\ pc' = "done"
                          /\ loc' = [loc EXCEPT !.output = output]
                     ELSE IF IsError(output) /\ RetryAllowed(loc.retry)
                     THEN /\ loc' = [loc EXCEPT
                                       !.command = FeedbackPrompt(output, loc.command),
                                       !.retry = @ + 1, !.output = output]
                          /\ pc' = "p1_generate"
                          /\ UNCHANGED <<history, ret>>
                     ELSE /\ loc' = [loc EXCEPT !.output = output]
                          /\ pc' = "p1_record"
                          /\ UNCHANGED <<history, ret>>
    /\ UNCHANGED <<cache, last_generated_command, now, invocations, db_faults>>
    /\ UNCHANGED <<tasks, disk>>

\* the wait loop of a script that never ends: one more wait expires
P1_Poll ==
    /\ pc = "p1_wait"
    /\ UNCHANGED vars

\* handle_command_output: the history entry, then the row of the cache
P1_Record(db_fault) ==
    /\ pc = "p1_record"
    /\ LET status == OutputStatus(loc.output)
           error_message == IF IsError(loc.output) THEN loc.output ELSE None
           appended == append_to_history(history, loc.command, loc.output, loc.ai_response,
                           status, error_message, FALSE, now)
       IN IF db_fault
          THEN /\ obs' = [obs EXCEPT !.trail = SetLast(@, "fault", "cache")]
               /\ P1_Except(appended)
               /\ UNCHANGED <<cache>>
          ELSE /\ history' = appended
               /\ cache' = save_cache(cache, loc.command, last_generated_command, loc.output, now)
               /\ ret' = Returned(loc.output)
               /\ pc' = "done"
               /\ UNCHANGED <<loc, obs>>
    /\ Count(db_fault)
    /\ UNCHANGED <<last_generated_command, now, invocations>>
    /\ UNCHANGED <<tasks, disk>>

-----------------------------------------------------------------------------
(* ai_shell/command/command_generator.py and command_executor.py *)

\* CommandGenerator.generate_command: the text of the model, or CommandGenerationError
generate_command(llm) ==
    IF llm.kind = "raise" THEN [raised |-> TRUE, response |-> None]
    ELSE [raised |-> FALSE, response |-> llm.text]

\* CommandExecutor.execute_command: the pair (output, exit code); it raises nothing
executor_execute_command(child) ==
    IF child.kind = "exit" /\ child.rc = 0
    THEN [output |-> Strip(child.stdout), exit_code |-> 0]
    ELSE IF child.kind = "exit"
    THEN [output |-> <<"Error:", " ">> \o Strip(child.stderr), exit_code |-> child.rc]
    ELSE IF child.kind = "timeout"
    THEN [output |-> TimeoutMessage, exit_code |-> 1]
    ELSE [output |-> <<"Error:", " ">> \o child.msg, exit_code |-> 1]

-----------------------------------------------------------------------------
(* ai_shell/ai_shell.py: AIShell.process_command *)

Result(success, message) == [kind |-> "result", success |-> success, message |-> message]

\* the rewrite of a command that starts with "clone "
FormatClone(shell_command) ==
    IF StartsWith(shell_command, <<"clone", " ">>)
    THEN LET parts == Words(shell_command)
         IN IF Len(parts) >= 3
            THEN <<"git", " ", "clone", " ", parts[2], " ", parts[3]>>
            ELSE <<"git", " ">> \o shell_command
    ELSE shell_command

\* the call and the context; a failure of the context is a failed result
A1_Start(user_input, context_ok) ==
    /\ pc = "idle"
    /\ invocations < MaxInvocations
    /\ invocations' = invocations + 1
    /\ loc' = [Loc0 EXCEPT !.command = user_input]
    /\ obs' = [Obs0 EXCEPT !.entry = "ai_shell.py", !.orig = user_input,
                           !.histBase = Len(history), !.cacheBase = cache]
    /\ IF context_ok
       THEN /\ pc' = "a1_generate"
            /\ ret' = NoRet
       ELSE /\ pc' = "done"
            /\ ret' = Result(FALSE, <<"Failed to initialize context:">>)
    /\ UNCHANGED <<history, cache, last_generated_command, now, db_faults>>
    /\ UNCHANGED <<tasks, disk>>

\* the generation; an error or None is a failed result
A1_Generate(llm) ==
    /\ pc = "a1_generate"
    /\ LET r == generate_command(llm)
           fault == IF r.raised THEN "llm" ELSE "none"
       IN /\ obs' = [obs EXCEPT !.genCalls = @ + 1,
                                !.trail = Append(@, Attempt(loc.command, llm, r.response, fault))]
          /\ loc' = [loc EXCEPT !.ai_response = r.response]
          /\ IF r.raised
             THEN /\ ret' = Result(FALSE, <<"Failed to generate AI response:">>)
                  /\ pc' = "done"
             ELSE IF r.response = None
             THEN /\ ret' = Result(FALSE, <<"Failed to generate AI response.">>)
                  /\ pc' = "done"
             ELSE /\ pc' = "a1_confirm"
                  /\ UNCHANGED ret
    /\ UNCHANGED <<history, cache, last_generated_command, now, invocations, db_faults>>
    /\ UNCHANGED <<tasks, disk>>

A1_ConfirmExecutesAnyway(user_choice, edited) ==
    /\ pc = "a1_confirm"
    /\ IF user_choice = <<>>
       THEN /\ loc' = [loc EXCEPT !.shell_command = FormatClone(loc.ai_response)]
            /\ pc' = "a1_execute"
            /\ UNCHANGED ret
       ELSE IF user_choice = <<"e">>
       THEN /\ loc' = [loc EXCEPT !.shell_command = FormatClone(edited)]
            /\ pc' = "a1_execute"
            /\ UNCHANGED ret
       ELSE /\ loc' = [loc EXCEPT !.shell_command = FormatClone(loc.ai_response)]
            /\ pc' = "a1_execute"
            /\ UNCHANGED ret
    /\ obs' = [obs EXCEPT !.choice = user_choice]
    /\ UNCHANGED <<history, cache, last_generated_command, now, invocations, db_faults>>
    /\ UNCHANGED <<tasks, disk>>

\* the confirmation: Enter executes, e edits, anything else cancels
A1_Confirm(user_choice, edited) ==
    /\ pc = "a1_confirm"
    /\ IF user_choice = <<>>
       THEN /\ loc' = [loc EXCEPT !.shell_command = FormatClone(loc.ai_response)]
            /\ pc' = "a1_execute"
            /\ UNCHANGED ret
       ELSE IF user_choice = <<"e">>
       THEN /\ loc' = [loc EXCEPT !.shell_command = FormatClone(edited)]
            /\ pc' = "a1_execute"
            /\ UNCHANGED ret
       ELSE /\ ret' = Result(FALSE, <<"Command execution cancelled by user.">>)
            /\ pc' = "done"
            /\ UNCHANGED loc
    /\ obs' = [obs EXCEPT !.choice = user_choice]
    /\ UNCHANGED <<history, cache, last_generated_command, now, invocations, db_faults>>
    /\ UNCHANGED <<tasks, disk>>

A1_ExecuteIgnoresExitCode(child) ==
    /\ pc = "a1_execute"
    /\ LET r == executor_execute_command(child)
           t1 == SetLast(SetLast(obs.trail, "script", loc.shell_command), "child", child)
       IN /\ obs' = [obs EXCEPT !.execCalls = @ + 1, !.trail = SetLast(t1, "output", r.output)]
          /\ loc' = [loc EXCEPT !.output = r.output]
          /\ ret' = Result(TRUE, r.output)
          /\ pc' = "done"
    /\ UNCHANGED <<history, cache, last_generated_command, now, invocations, db_faults>>
    /\ UNCHANGED <<tasks, disk>>

\* the execution and the result built from the exit code
A1_Execute(child) ==
    /\ pc = "a1_execute"
    /\ LET r == executor_execute_command(child)
           t1 == SetLast(SetLast(obs.trail, "script", loc.shell_command), "child", child)
       IN /\ obs' = [obs EXCEPT !.execCalls = @ + 1, !.trail = SetLast(t1, "output", r.output)]
          /\ loc' = [loc EXCEPT !.output = r.output]
          /\ ret' = IF r.exit_code # 0
                    THEN Result(FALSE, <<"Command failed with exit code", " ",
                                         RcText(r.exit_code), ".", " ", "Error:", " ">> \o r.output)
                    ELSE Result(TRUE, r.output)
          /\ pc' = "done"
    /\ UNCHANGED <<history, cache, last_generated_command, now, invocations, db_faults>>
    /\ UNCHANGED <<tasks, disk>>

-----------------------------------------------------------------------------
(* ai_shell/command/command_history_manager.py *)

max_history_size == 100

\* CommandHistoryManager.append_to_history: the oldest entry leaves a full history
hm_append_to_history(h, entry, max) ==
    LET longer == Append(h, entry)
    IN IF Len(longer) > max THEN Tail(longer) ELSE longer

-----------------------------------------------------------------------------
(* ai_shell/command/command_processor.py *)

\* CommandProcessor.simplify_script: drop the blank lines and the comments
RECURSIVE KeepCode(_)
KeepCode(lines) ==
    IF lines = <<>> THEN <<>>
    ELSE IF ~StartsWith(Strip(Head(lines)), <<"#">>) /\ Strip(Head(lines)) # <<>>
    THEN <<Head(lines)>> \o KeepCode(Tail(lines))
    ELSE KeepCode(Tail(lines))

simplify_script(script) == Join(KeepCode(Split(script, "\n")), "\n")

\* read_stream: the lines of a stream, each stripped, joined again
ReadStream(data) ==
    IF data = <<>> THEN <<>>
    ELSE LET parts == Split(data, "\n")
             whole == IF parts[Len(parts)] = <<>> THEN SubSeq(parts, 1, Len(parts) - 1)
                      ELSE parts
         IN Join([k \in 1..Len(whole) |-> Strip(whole[k])], "\n")

LongTimeoutMessage ==
    <<"Error:", " ", TimedOutPhrase, " ", "after", " ", "600", " ", "seconds.">>

\* CommandProcessor._execute_single_command: the text a child leaves, whatever its status
execute_single_command(child) ==
    IF child.kind = "exit"
    THEN LET stdout_output == ReadStream(child.stdout)
             stderr_output == ReadStream(child.stderr)
         IN stdout_output \o (IF stderr_output # <<>> THEN <<"\n">> \o stderr_output ELSE <<>>)
    ELSE IF child.kind = "timeout" THEN LongTimeoutMessage
    ELSE child.msg

\* the message of an echo line: the text after "echo ", without surrounding quotes
EchoMessage(line) == StripChars(SubSeq(line, 3, Len(line)), {"\""})

-----------------------------------------------------------------------------
(* ai_shell/ai_shell.py: AIShell.process_command_v2 and the processor it drives *)

V2_Start(command, use_cache, simulation_mode) ==
    /\ pc = "idle"
    /\ invocations < MaxInvocations
    /\ invocations' = invocations + 1
    /\ loc' = [Loc0 EXCEPT !.command = command, !.use_cache = use_cache,
                           !.simulation_mode = simulation_mode]
    /\ obs' = [Obs0 EXCEPT !.entry = "v2", !.orig = command, !.given = command,
                           !.histBase = Len(history), !.cacheBase = cache]
    /\ ret' = NoRet
    /\ pc' = "v2_generate"
    /\ UNCHANGED <<history, cache, last_generated_command, now, db_faults>>
    /\ UNCHANGED <<tasks, disk>>

\* processor.generate_ai_response; an error ends in the except clause of the shell
V2_Generate(llm) ==
    /\ pc = "v2_generate"
    /\ LET r == generate_command(llm)
           fault == IF r.raised THEN "llm" ELSE "none"
       IN /\ obs' = [obs EXCEPT !.genCalls = @ + 1,
                                !.trail = Append(@, Attempt(loc.command, llm, r.response, fault))]
          /\ loc' = [loc EXCEPT !.ai_response = r.response]
          /\ IF r.raised
             THEN /\ ret' = Result(FALSE, <<"An error occurred:">>)
                  /\ pc' = "done"
             ELSE IF r.response = None
             THEN /\ ret' = Result(FALSE, <<"Failed to generate AI response.">>)
                  /\ pc' = "done"
             ELSE /\ pc' = "v2_confirm"
                  /\ UNCHANGED ret
    /\ UNCHANGED <<history, cache, last_generated_command, now, invocations, db_faults>>
    /\ UNCHANGED <<tasks, disk>>

\* the plan is shown; Enter processes it, e runs an edited script, else cancel
V2_Confirm(user_choice, edited_script) ==
    /\ pc = "v2_confirm"
    /\ IF user_choice = <<>>
       THEN /\ pc' = IF loc.use_cache THEN "p2_check_cache" ELSE "p2_lines"
            /\ loc' = [loc EXCEPT !.recording = TRUE,
                                  !.lines = Split(simplify_script(loc.ai_response), "\n")]
            /\ UNCHANGED ret
       ELSE IF user_choice = <<"e">>
       THEN /\ pc' = "p2_lines"
            /\ loc' = [loc EXCEPT !.recording = FALSE, !.lines = Split(edited_script, "\n")]
            /\ UNCHANGED ret
       ELSE /\ ret' = Result(FALSE, <<"Command execution cancelled by user.">>)
            /\ pc' = "done"
            /\ UNCHANGED loc
    /\ obs' = [obs EXCEPT !.choice = user_choice]
    /\ UNCHANGED <<history, cache, last_generated_command, now, invocations, db_faults>>
    /\ UNCHANGED <<tasks, disk>>

\* process_command: the cache, when use_cache; a hit is recorded and returned
P2_CheckCache(db_fault) ==
    /\ pc = "p2_check_cache"
    /\ Count(db_fault)
    /\ IF db_fault
       THEN /\ ret' = Result(FALSE, <<"An error occurred:">>)
            /\ pc' = "done"
            /\ UNCHANGED history
       ELSE LET row == check_cache(cache, loc.command, now)
            IN IF Truthy(row.output)
               THEN /\ history' = hm_append_to_history(history,
                                      HistoryEntry(loc.command, row.output, row.generated_command,
                                                   "Success (Cached)", None, TRUE, now),
                                      max_history_size)
                    /\ ret' = Result(TRUE, row.output)
                    /\ pc' = "done"
               ELSE /\ pc' = "p2_lines"
                    /\ UNCHANGED <<history, ret>>
    /\ UNCHANGED <<loc, obs, cache, last_generated_command, now, invocations>>
    /\ UNCHANGED <<tasks, disk>>

\* execute_script_interactively: one line of the script
P2_Line(child, user_input) ==
    /\ pc = "p2_lines"
    /\ LET line == loc.lines[loc.i]
           is_echo == StartsWith(line, <<"echo", " ">>)
           message == EchoMessage(line)
           cancelled == is_echo /\ StartsWith(message, <<"USER_INPUT:">>) /\ user_input = <<"q">>
           runs == ~is_echo /\ ~loc.simulation_mode
           result ==
               IF is_echo
               THEN IF ~StartsWith(message, <<"USER_INPUT:">>)
                       /\ (StartsWith(message, <<"INFO:">>) \/ StartsWith(message, <<"WARNING:">>))
                    THEN <<message>>
                    ELSE <<>>
               ELSE IF loc.simulation_mode
               THEN <<<<"[Simulation] Would execute:", " ">> \o line>>
               ELSE <<execute_single_command(child)>>
           results == loc.results \o result
           last == loc.i = Len(loc.lines)
           output == IF cancelled THEN <<"Operation cancelled by user.">>
                     ELSE Join(results, "\n")
           t1 == IF runs
                 THEN SetLast(SetLast(obs.trail, "script", line), "child", child)
                 ELSE obs.trail
       IN /\ obs' = [obs EXCEPT !.execCalls = @ + (IF runs THEN 1 ELSE 0),
                                !.trail = IF cancelled \/ last THEN SetLast(t1, "output", output)
                                          ELSE t1]
          /\ IF cancelled \/ last
             THEN /\ loc' = [loc EXCEPT !.results = results, !.output = output]
                  /\ IF loc.recording
                     THEN /\ pc' = "p2_record"
                          /\ UNCHANGED ret
                     ELSE /\ pc' = "done"
                          /\ ret' = Result(TRUE, output)
             ELSE /\ loc' = [loc EXCEPT !.results = results, !.i = @ + 1]
                  /\ UNCHANGED <<pc, ret>>
    /\ UNCHANGED <<history, cache, last_generated_command, now, invocations, db_faults>>
    /\ UNCHANGED <<tasks, disk>>

\* handle_command_output: the history entry, then the row of the cache
P2_Record(db_fault) ==
    /\ pc = "p2_record"
    /\ Count(db_fault)
    /\ history' = hm_append_to_history(history,
                      HistoryEntry(loc.command, loc.output, loc.ai_response,
                                   OutputStatus(loc.output),
                                   IF IsError(loc.output) THEN loc.output ELSE None, FALSE, now),
                      max_history_size)
    /\ IF db_fault
       THEN /\ ret' = Result(FALSE, <<"An error occurred:">>)
            /\ UNCHANGED cache
       ELSE /\ cache' = save_cache(cache, loc.command, last_generated_command, loc.output, now)
            /\ ret' = Result(TRUE, loc.output)
    /\ pc' = "done"
    /\ UNCHANGED <<loc, obs, last_generated_command, now, invocations>>
    /\ UNCHANGED <<tasks, disk>>

-----------------------------------------------------------------------------

\* the caller takes the result
Return ==
    /\ pc = "done"
    /\ pc' = "idle"
    /\ loc' = Loc0
    /\ obs' = Obs0
    /\ ret' = NoRet
    /\ UNCHANGED <<history, cache, last_generated_command, now, invocations, db_faults>>
    /\ UNCHANGED <<tasks, disk>>

Next ==
    \/ \E i \in Instructions, sim \in BOOLEAN : P1_Start(i, sim)
    \/ \E f \in BOOLEAN : P1_CheckCache(f)
    \/ \E llm \in LlmOutcomes : P1_Generate(llm)
    \/ \E run \in P1ChildOutcomes : P1_Execute(run)
    \/ P1_Poll
    \/ \E f \in BOOLEAN : P1_Record(f)
    \/ \E i \in Instructions, ok \in BOOLEAN : A1_Start(i, ok)
    \/ \E llm \in LlmOutcomes : A1_Generate(llm)
    \/ \E c \in Choices, e \in Edits : A1_Confirm(c, e)
    \/ \E child \in ChildOutcomes : A1_Execute(child)
    \/ Return

Spec == Init /\ [][Next]_vars

NextV2 ==
    \/ \E i \in Instructions, uc \in BOOLEAN, sim \in BOOLEAN : V2_Start(i, uc, sim)
    \/ \E llm \in LlmOutcomesV2 : V2_Generate(llm)
    \/ \E c \in Choices, e \in Edits : V2_Confirm(c, e)
    \/ \E f \in BOOLEAN : P2_CheckCache(f)
    \/ \E child \in ChildOutcomes, u \in UserInputs : P2_Line(child, u)
    \/ \E f \in BOOLEAN : P2_Record(f)
    \/ Return

SpecV2 == Init /\ [][NextV2]_vars

-----------------------------------------------------------------------------
(* Properties *)

Done == pc = "done"

InP1 == obs.entry = "command.py"

InA1 == obs.entry = "ai_shell.py"

InV2 == obs.entry = "v2"

Last(s) == s[Len(s)]

IsInfix(sub, s) ==
    \E k \in 0..(Len(s) - Len(sub)) : SubSeq(s, k + 1, k + Len(sub)) = sub

ChildFailed(c) == c.kind = "exit" /\ c.rc # 0

ChildSucceeded(c) == c.kind = "exit" /\ c.rc = 0

\* the model answered attempt k with None, the empty string or white space only
EmptyResponse(k) ==
    /\ obs.trail[k].fault # "llm"
    /\ (obs.trail[k].raw = None \/ Strip(obs.trail[k].raw) = <<>>)

\* attempt k ended in an exception of the model client or of the execution
RaisedAt(k) == obs.trail[k].fault = "llm" \/ obs.trail[k].child.kind = "oserror"

LiveRow(db, k) == k \in DOMAIN db /\ now - db[k].timestamp < CACHE_TTL

IsFailureValue(v) == v = None \/ IsError(v)

\* C1: in one invocation the generation calls and the execution attempts are
\* each at most the retry budget of 3, whatever fails during the attempts.
C1_RetryBudget ==
    obs.genCalls <= MAX_RETRIES /\ obs.execCalls <= MAX_RETRIES

C1_Witness ==
    /\ Done /\ InP1
    /\ obs.genCalls = MAX_RETRIES /\ obs.execCalls = MAX_RETRIES
    /\ obs.trail[1].child.kind = "oserror"
    /\ ChildFailed(obs.trail[2].child)

\* C2: when the script of the first attempt fails (no timeout) with output E1
\* and the script of the second attempt succeeds, there are exactly 2
\* generation calls, the second prompt contains E1, and the final history
\* entry has status Success with used_cache false.
C2_RetryFeedback ==
    (/\ Done /\ InP1
     /\ Len(obs.trail) >= 2
     /\ ChildFailed(obs.trail[1].child)
     /\ ChildSucceeded(obs.trail[2].child))
    => /\ obs.genCalls = 2
       /\ IsInfix(obs.trail[1].output, obs.trail[2].prompt)
       /\ Last(history).status = "Success"
       /\ ~Last(history).used_cache

\* the script of attempt k ran into the time limit
TimedOut(k) == obs.trail[k].child.kind = "timeout" \/ obs.trail[k].overdue

\* C3: a timeout is never retried: when the execution of the first script
\* times out, process() ends after one generation call and one execution
\* attempt, and the single history entry it records has status Timeout.
C3_TimeoutNotRetried ==
    (Done /\ InP1 /\ obs.trail # <<>> /\ TimedOut(1))
    => /\ obs.genCalls = 1
       /\ obs.execCalls = 1
       /\ Len(history) = obs.histBase + 1
       /\ Last(history).status = "Timeout"

C5_EmptyExtractionIsFailure ==
    (/\ Done /\ InP1 /\ obs.trail # <<>>
     /\ Truthy(Last(obs.trail).response)
     /\ extract_commands(Last(obs.trail).response) = <<>>)
    => /\ Last(obs.trail).child = NoChild
       /\ Last(history).status = "Error"
       /\ cache = obs.cacheBase

\* C6: every invocation that returns has appended exactly one history entry.
C6_OneEntryPerInvocation ==
    (Done /\ ret.kind # "raised") => Len(history) = obs.histBase + 1

\* C7: an invocation that ends otherwise than with a successful execution
\* (Error, Timeout, or a cache hit) leaves the cache as it was.
C7_CacheOnlyOnSuccess ==
    (Done /\ InP1 /\ ret.kind = "value" /\ Last(history).status # "Success")
    => cache = obs.cacheBase

\* C8: after a successful execution the cache row is keyed by the original
\* instruction and holds the script that was executed and its output.
C8_CacheKeyAndValue ==
    (/\ Done /\ InP1 /\ ret.kind = "value" /\ obs.trail # <<>>
     /\ ChildSucceeded(Last(obs.trail).child)
     /\ Last(history).status = "Success")
    => /\ obs.orig \in DOMAIN cache
       /\ cache[obs.orig].generated_command = Last(obs.trail).script
       /\ cache[obs.orig].output = Last(obs.trail).output

\* C9: with caching enabled and a live row for the instruction, the invocation
\* calls the model zero times, executes nothing, returns the cached output and
\* records one entry Success (Cached) with used_cache true.
C9_CacheHitCallsNothing ==
    (Done /\ InV2 /\ loc.use_cache /\ LiveRow(obs.cacheBase, obs.orig))
    => /\ obs.genCalls = 0
       /\ obs.execCalls = 0
       /\ ret = Result(TRUE, obs.cacheBase[obs.orig].output)
       /\ Len(history) = obs.histBase + 1
       /\ Last(history).status = "Success (Cached)"
       /\ Last(history).used_cache

C11_ExitCodeDecidesSuccess ==
    (/\ Done /\ InP1 /\ ret.kind = "value" /\ obs.trail # <<>>
     /\ Last(obs.trail).child.kind \in {"exit", "timeout", "oserror"}
     /\ ~Last(obs.trail).overdue
     /\ Last(obs.trail).fault = "none")
    => LET last == Last(obs.trail)
           succeeded == ChildSucceeded(last.child)
       IN (Last(history).status = "Success") <=> succeeded

-----------------------------------------------------------------------------
(* ai_shell/utils/cache.py and CommandCacheManager: the operations of the store *)

MaxStoreOps == 3

MaxTicks == 2

Keys == {I_list, I_alias}

Scripts == {<<"ls">>, R_fenced}

Outputs == {<<"O1">>, <<>>, None}

\* the seconds that may pass between two operations
Delays == {1, CACHE_TTL - 1}

NoOp == [op |-> "none", key |-> <<>>, g |-> None, o |-> None, t |-> 0]

StoreOp(op, key, g, o, prev) ==
    [entry |-> "cache", op |-> op, key |-> key, g |-> g, o |-> o, t |-> now,
     before |-> cache, prev |-> prev]

\* the operation that came before, without its own past
Flat(o) == [op |-> o.op, key |-> o.key, g |-> o.g, o |-> o.o, t |-> o.t]

\* clean_expired_cache: DELETE FROM cache WHERE timestamp < now - 3600
clean_expired_cache(db, t) ==
    LET kept == {k \in DOMAIN db : ~(db[k].timestamp < t - CACHE_TTL)}
    IN [k \in kept |-> db[k]]

\* clear_cache of utils/cache.py: DELETE FROM cache
clear_cache(db) == <<>>

\* CommandCacheManager.clear_cache: the dictionary is emptied, the table is cleaned
manager_clear_cache(db, t) == clean_expired_cache(db, t)

InitStore ==
    /\ pc = "idle"
    /\ loc = [ops |-> 0, ticks |-> 0]
    /\ cache \in InitCaches
    /\ now = T0
    /\ obs = StoreOp("none", <<>>, None, None, NoOp)
    /\ ret = NoRet
    /\ history = <<>>
    /\ last_generated_command = <<>>
    /\ invocations = 0
    /\ db_faults = 0
    /\ tasks = <<>>
    /\ disk = <<>>

StoreFrame ==
    /\ loc.ops < MaxStoreOps
    /\ loc' = [loc EXCEPT !.ops = @ + 1]
    /\ UNCHANGED <<pc, history, last_generated_command, now, invocations, db_faults,
                   tasks, disk>>

K_Save(command, generated_command, output) ==
    /\ cache' = save_cache(cache, command, generated_command, output, now)
    /\ obs' = StoreOp("save", command, generated_command, output, Flat(obs))
    /\ ret' = NoRet
    /\ StoreFrame

K_Check(prompt) ==
    /\ ret' = Returned(check_cache(cache, prompt, now))
    /\ obs' = StoreOp("check", prompt, None, None, Flat(obs))
    /\ UNCHANGED cache
    /\ StoreFrame

K_CleanExpired ==
    /\ cache' = clean_expired_cache(cache, now)
    /\ obs' = StoreOp("clean", <<>>, None, None, Flat(obs))
    /\ ret' = NoRet
    /\ StoreFrame

K_Clear ==
    /\ cache' = clear_cache(cache)
    /\ obs' = StoreOp("clear", <<>>, None, None, Flat(obs))
    /\ ret' = NoRet
    /\ StoreFrame

K_ManagerClear ==
    /\ cache' = manager_clear_cache(cache, now)
    /\ obs' = StoreOp("manager_clear", <<>>, None, None, Flat(obs))
    /\ ret' = NoRet
    /\ StoreFrame

\* time passes between two operations
K_Tick(d) ==
    /\ loc.ticks < MaxTicks
    /\ loc' = [loc EXCEPT !.ticks = @ + 1]
    /\ now' = now + d
    /\ obs' = [obs EXCEPT !.op = "tick"]
    /\ UNCHANGED <<pc, ret, history, cache, last_generated_command, invocations,
                   db_faults, tasks, disk>>

NextStore ==
    \/ \E k \in Keys, g \in Scripts, o \in Outputs : K_Save(k, g, o)
    \/ \E k \in Keys : K_Check(k)
    \/ K_CleanExpired
    \/ K_Clear
    \/ K_ManagerClear
    \/ \E d \in Delays : K_Tick(d)

SpecStore == InitStore /\ [][NextStore]_vars

\* the age of the row of key k
Age(db, k, t) == t - db[k].timestamp

Pair(g, o) == [generated_command |-> g, output |-> o]

\* C12: a save of (k, g, o) followed at once by a lookup of k returns (g, o);
\* an output of None is read back as the empty text.
C12_RoundTrip ==
    (/\ obs.op = "check" /\ obs.prev.op = "save"
     /\ obs.prev.key = obs.key /\ obs.prev.t = obs.t)
    => ret = Returned(Pair(obs.prev.g, IF obs.prev.o = None THEN <<>> ELSE obs.prev.o))

C12_Witness ==
    /\ obs.op = "check" /\ obs.prev.op = "save"
    /\ obs.prev.key = obs.key /\ obs.prev.t = obs.t
    /\ obs.key \in DOMAIN obs.before
    /\ ret = Returned(Pair(R_fenced, <<"O1">>))

StoredPair(db, k) == Pair(db[k].generated_command, db[k].output)

\* C13: a lookup of k returns the stored pair when a row of k exists whose age
\* is at most the TTL of 3600 s, and nothing when the row is absent or older.
C13_ExpiryAtMostTtl ==
    obs.op = "check"
    => IF obs.key \in DOMAIN cache /\ Age(cache, obs.key, now) <= CACHE_TTL
       THEN ret = Returned(StoredPair(cache, obs.key))
       ELSE ret = Returned(NoRow)

\* C13 as amended: the stored pair is returned when the age of the row is less
\* than the TTL; a row whose age is the TTL or more, or an absent row, yields
\* nothing, so the data of an expired row is never returned.
C13_ExpiryBelowTtl ==
    obs.op = "check"
    => IF obs.key \in DOMAIN cache /\ Age(cache, obs.key, now) < CACHE_TTL
       THEN ret = Returned(StoredPair(cache, obs.key))
       ELSE ret = Returned(NoRow)

C13_Witness ==
    /\ obs.op = "check"
    /\ obs.key \in DOMAIN cache
    /\ Age(cache, obs.key, now) = CACHE_TTL
    /\ ret = Returned(NoRow)

\* C15: after the clear operation of the cache manager a lookup returns nothing
\* for every key, also for keys whose rows had not expired.
C15_ManagerClearDeletesAll ==
    (obs.op = "check" /\ obs.prev.op = "manager_clear") => ret = Returned(NoRow)

-----------------------------------------------------------------------------
(* ai_shell/utils/cache.py: save_cache calls that overlap *)

(* Here the table is the set of its rows, so that "one row per prompt" is a  *)
(* property of INSERT OR REPLACE on the PRIMARY KEY and not a matter of      *)
(* representation.  SQLite runs one statement at a time and lets one         *)
(* connection write at a time; the others wait or fail with "database is     *)
(* locked".                                                                  *)

MaxWriters == 2

Row(prompt, generated_command, output, timestamp) ==
    [prompt |-> prompt, generated_command |-> generated_command, output |-> output,
     timestamp |-> timestamp]

InsertPlain(rows, row) == rows \cup {row}

\* INSERT OR REPLACE INTO cache: the row of the same prompt gives way
InsertOrReplace(rows, row) == {r \in rows : r.prompt # row.prompt} \cup {row}

SeedTables == {{}, {Row(I_list, R_fenced, <<"O1">>, T0 - 60)}}

InitUpsert ==
    /\ pc = "idle"
    /\ loc = [ticks |-> 0]
    /\ cache \in SeedTables
    /\ obs = [entry |-> "upsert", commits |-> <<>>, seed |-> cache]
    /\ ret = NoRet
    /\ history = <<>>
    /\ last_generated_command = <<>>
    /\ now = T0
    /\ invocations = 0
    /\ db_faults = 0
    /\ tasks = <<>>
    /\ disk = <<>>

UpsertFrame ==
    UNCHANGED <<pc, ret, history, last_generated_command, invocations, db_faults, disk>>

\* save_cache is called: the output becomes text, init_cache is awaited
U_Call(command, generated_command, output) ==
    /\ Len(tasks) < MaxWriters
    /\ tasks' = Append(tasks, [pc |-> "init", command |-> command,
                               generated_command |-> generated_command,
                               output_str |-> (IF output # None THEN output ELSE <<>>),
                               timestamp |-> 0])
    /\ UNCHANGED <<cache, obs, loc, now>>
    /\ UpsertFrame

\* init_cache has returned: CREATE TABLE IF NOT EXISTS changes nothing
U_InitCache(i) ==
    /\ i \in DOMAIN tasks /\ tasks[i].pc = "init"
    /\ tasks' = [tasks EXCEPT ![i].pc = "execute"]
    /\ UNCHANGED <<cache, obs, loc, now>>
    /\ UpsertFrame

WriteLocked == \E j \in DOMAIN tasks : tasks[j].pc = "commit"

\* db.execute: time.time() is read, the statement runs inside a transaction
U_Execute(i) ==
    /\ i \in DOMAIN tasks /\ tasks[i].pc = "execute"
    /\ ~WriteLocked
    /\ tasks' = [tasks EXCEPT ![i].pc = "commit", ![i].timestamp = now]
    /\ UNCHANGED <<cache, obs, loc, now>>
    /\ UpsertFrame

\* db.execute while another connection writes: sqlite3.OperationalError
U_Busy(i) ==
    /\ i \in DOMAIN tasks /\ tasks[i].pc = "execute"
    /\ WriteLocked
    /\ tasks' = [tasks EXCEPT ![i].pc = "failed"]
    /\ UNCHANGED <<cache, obs, loc, now>>
    /\ UpsertFrame

\* db.commit: the row of the transaction replaces the row of the prompt
U_Commit(i) ==
    /\ i \in DOMAIN tasks /\ tasks[i].pc = "commit"
    /\ cache' = InsertOrReplace(cache, Row(tasks[i].command, tasks[i].generated_command,
                                           tasks[i].output_str, tasks[i].timestamp))
    /\ tasks' = [tasks EXCEPT ![i].pc = "done"]
    /\ obs' = [obs EXCEPT !.commits = Append(@, i)]
    /\ UNCHANGED <<loc, now>>
    /\ UpsertFrame

U_Tick ==
    /\ loc.ticks < MaxTicks
    /\ loc' = [loc EXCEPT !.ticks = @ + 1]
    /\ now' = now + 1
    /\ UNCHANGED <<cache, obs, tasks>>
    /\ UpsertFrame

NextUpsert ==
    \/ \E k \in Keys, g \in Scripts, o \in Outputs : U_Call(k, g, o)
    \/ \E i \in 1..MaxWriters : U_InitCache(i)
    \/ \E i \in 1..MaxWriters : U_Execute(i)
    \/ \E i \in 1..MaxWriters : U_Busy(i)
    \/ \E i \in 1..MaxWriters : U_Commit(i)
    \/ U_Tick

SpecUpsert == InitUpsert /\ [][NextUpsert]_vars

TaskRow(i) ==
    Row(tasks[i].command, tasks[i].generated_command, tasks[i].output_str,
        tasks[i].timestamp)

\* the positions in obs.commits of the commits to prompt k
CommitsOf(k) == {n \in DOMAIN obs.commits : tasks[obs.commits[n]].command = k}

LastCommit(k) ==
    obs.commits[CHOOSE n \in CommitsOf(k) : \A m \in CommitsOf(k) : m <= n]

\* C14: after any interleaving of save_cache calls, the table holds at most one
\* row per prompt, and that row is the whole (script, output, timestamp) of
\* the write committed last for it, never a mix of two writes.
C14_OneWholeRowPerKey ==
    obs.entry = "upsert" =>
    /\ \A r1 \in cache, r2 \in cache : r1.prompt = r2.prompt => r1 = r2
    /\ \A k \in Keys :
          IF CommitsOf(k) # {}
          THEN {r \in cache : r.prompt = k} = {TaskRow(LastCommit(k))}
          ELSE {r \in cache : r.prompt = k} = {r \in obs.seed : r.prompt = k}

C14_Witness ==
    /\ obs.entry = "upsert"
    /\ Len(tasks) = 2
    /\ tasks[1].pc = "done" /\ tasks[2].pc = "done"
    /\ tasks[1].command = tasks[2].command
    /\ tasks[1].generated_command # tasks[2].generated_command
    /\ tasks[1].output_str # tasks[2].output_str
    /\ tasks[1].timestamp > tasks[2].timestamp
    /\ obs.commits = <<2, 1>>
    /\ tasks[1].command = I_list /\ obs.seed # {}
    /\ cache = {TaskRow(1)}

-----------------------------------------------------------------------------
(* The history: CommandHistoryManager and the history of command.py *)

(* An entry is the number of the append that made it.  The file is the     *)
(* sequence of the entries written to it.  A save of CommandHistoryManager *)
(* opens the file (which truncates it), serialises the history when it     *)
(* resumes, and the text reaches the file when it is closed; a save of     *)
(* command.py has no await inside and runs in one step.                    *)

MaxAppends == 3

MaxClears == 1

MaxRestarts == 1

MaxTasks == 2

Owners == {"manager", "processor"}

Budget(appends, clears, restarts, inflight) ==
    [appends |-> appends, clears |-> clears, restarts |-> restarts, inflight |-> inflight]

HistObs(owner) ==
    [entry |-> owner, appended |-> 0, restarted |-> FALSE, cleared |-> FALSE,
     durable |-> <<>>]

InitHistoryWith(budget) ==
    /\ pc = "idle"
    /\ loc = budget
    /\ obs \in {HistObs(o) : o \in Owners}
    /\ ret = NoRet
    /\ history = <<>>
    /\ cache = <<>>
    /\ last_generated_command = <<>>
    /\ now = T0
    /\ invocations = 0
    /\ db_faults = 0
    /\ tasks = <<>>
    /\ disk = <<>>

HistFrame ==
    UNCHANGED <<pc, ret, cache, last_generated_command, now, invocations, db_faults>>

SaveTask == [pc |-> "scheduled", snap |-> <<>>]

Remove(s, i) == SubSeq(s, 1, i - 1) \o SubSeq(s, i + 1, Len(s))

\* what a write of data at offset 0 leaves in a file that holds content
Overlay(content, data) == data \o SubSeq(content, Len(data) + 1, Len(content))

\* CommandProcessor.append_to_history of command.py: no bound on the list
processor_append_to_history(h, entry) == Append(h, entry)

\* append_to_history: the entry, the eviction, and the save that is scheduled
H_Append ==
    /\ loc.appends > 0
    /\ Len(tasks) < loc.inflight
    /\ loc' = [loc EXCEPT !.appends = @ - 1]
    /\ obs' = [obs EXCEPT !.appended = @ + 1]
    /\ history' = IF obs.entry = "manager"
                  THEN hm_append_to_history(history, obs.appended + 1, max_history_size)
                  ELSE processor_append_to_history(history, obs.appended + 1)
    /\ tasks' = Append(tasks, SaveTask)
    /\ UNCHANGED disk
    /\ HistFrame

\* clear_history: the manager schedules a save, command.py does not
H_Clear ==
    /\ loc.clears > 0
    /\ obs.entry = "manager" => Len(tasks) < loc.inflight
    /\ loc' = [loc EXCEPT !.clears = @ - 1]
    /\ obs' = [obs EXCEPT !.cleared = TRUE]
    /\ history' = <<>>
    /\ tasks' = IF obs.entry = "manager" THEN Append(tasks, SaveTask) ELSE tasks
    /\ UNCHANGED disk
    /\ HistFrame

\* save_history of command.py: open, json.dump and close without an await
S_Run(i) ==
    /\ obs.entry = "processor"
    /\ i \in DOMAIN tasks
    /\ disk' = history
    /\ tasks' = Remove(tasks, i)
    /\ UNCHANGED <<loc, obs, history>>
    /\ HistFrame

\* save_history of the manager: aiofiles.open(..., "w") truncates the file
S_Open(i) ==
    /\ obs.entry = "manager"
    /\ i \in DOMAIN tasks /\ tasks[i].pc = "scheduled"
    /\ disk' = <<>>
    /\ tasks' = [tasks EXCEPT ![i].pc = "opened"]
    /\ UNCHANGED <<loc, obs, history>>
    /\ HistFrame

\* f.write(json.dumps(self.history)): the history as it is now, into the buffer
S_Write(i) ==
    /\ obs.entry = "manager"
    /\ i \in DOMAIN tasks /\ tasks[i].pc = "opened"
    /\ tasks' = [tasks EXCEPT ![i].pc = "written", ![i].snap = history]
    /\ UNCHANGED <<loc, obs, history, disk>>
    /\ HistFrame

\* the end of the async with: the buffer is written at offset 0 and the file closed
S_Close(i) ==
    /\ obs.entry = "manager"
    /\ i \in DOMAIN tasks /\ tasks[i].pc = "written"
    /\ disk' = Overlay(disk, tasks[i].snap)
    /\ tasks' = Remove(tasks, i)
    /\ UNCHANGED <<loc, obs, history>>
    /\ HistFrame

\* the process ends and starts again: __init__ sets the history to []
H_Restart ==
    /\ loc.restarts > 0
    /\ loc' = [loc EXCEPT !.restarts = @ - 1]
    /\ obs' = [obs EXCEPT !.restarted = TRUE, !.durable = disk]
    /\ history' = <<>>
    /\ tasks' = <<>>
    /\ UNCHANGED disk
    /\ HistFrame

NextHistory ==
    \/ H_Append
    \/ H_Clear
    \/ \E i \in 1..MaxTasks : S_Run(i)
    \/ \E i \in 1..MaxTasks : S_Open(i)
    \/ \E i \in 1..MaxTasks : S_Write(i)
    \/ \E i \in 1..MaxTasks : S_Close(i)
    \/ H_Restart

SpecHistory ==
    InitHistoryWith(Budget(MaxAppends, MaxClears, MaxRestarts, MaxTasks))
        /\ [][NextHistory]_vars

NextAppend ==
    \/ H_Append
    \/ \E i \in 1..MaxTasks : S_Run(i)
    \/ \E i \in 1..MaxTasks : S_Open(i)
    \/ \E i \in 1..MaxTasks : S_Write(i)
    \/ \E i \in 1..MaxTasks : S_Close(i)

\* appends only, enough of them to pass the bound of the history
SpecAppend ==
    InitHistoryWith(Budget(max_history_size + 2, 0, 0, 1)) /\ [][NextAppend]_vars

\* the newest n of the entries 1..last, in the order of their appends
Newest(n, last) == [i \in 1..n |-> last - n + i]

\* C16: the history never holds more than max_size entries, and after N >
\* max_size appends it holds the newest max_size entries in append order.
C16_HistoryBound ==
    obs.entry \in Owners =>
    /\ Len(history) <= max_history_size
    /\ obs.appended > max_history_size
       => history = Newest(max_history_size, obs.appended)

Elems(s) == {s[i] : i \in DOMAIN s}

\* C17: the history is loaded at startup, so the entries that were in the file
\* before a restart are in the history and in the file after the restart and
\* after the appends that follow it.
C17_SurvivesRestart ==
    (obs.entry \in Owners /\ obs.restarted)
    => /\ Elems(obs.durable) \subseteq Elems(history)
       /\ tasks = <<>> => Elems(obs.durable) \subseteq Elems(disk)

\* C18: once every save that was scheduled has completed, the file holds
\* exactly the history that is in memory.
C18_SavesConverge ==
    (obs.entry \in Owners /\ ~obs.restarted /\ tasks = <<>>) => disk = history

-----------------------------------------------------------------------------
(* Concurrent invocations of CommandProcessor.process_command
   (ai_shell/command/command_processor.py) on one event loop: they share the
   history manager and the cache; a coroutine gives way at each await *)

MaxConcurrent == 2

Invocations == 1..MaxConcurrent

ConcurrentChildren ==
    {c \in ChildOutcomes : c.kind = "exit" => c.stderr = <<>>}

IdleTask == [pc |-> "idle", command |-> <<>>, use_cache |-> FALSE, output |-> <<>>]

InitConcurrent ==
    /\ pc = "idle"
    /\ loc = Loc0
    /\ ret = NoRet
    /\ history = <<>>
    /\ cache \in {<<>>, SeedRow(<<"O1">>, 60)}
    /\ last_generated_command = <<"ls">>
    /\ now = T0
    /\ invocations = 0
    /\ db_faults = 0
    /\ disk = <<>>
    /\ tasks = [i \in Invocations |-> IdleTask]
    /\ obs = [entry |-> "concurrent", started |-> <<>>, logged |-> <<>>, completed |-> <<>>]

ConcurrentFrame ==
    UNCHANGED <<pc, loc, ret, last_generated_command, now, invocations, db_faults, disk>>

\* process_command is called; the coroutine runs to its first await
Q_Start(i, command, use_cache) ==
    /\ tasks[i].pc = "idle"
    /\ tasks' = [tasks EXCEPT ![i] = [pc |-> IF use_cache THEN "check_cache" ELSE "execute",
                                      command |-> command, use_cache |-> use_cache,
                                      output |-> <<>>]]
    /\ obs' = [obs EXCEPT !.started = Append(@, i)]
    /\ UNCHANGED <<history, cache>>
    /\ ConcurrentFrame

\* await check_cache resumes; handle_cached_output records a hit and returns
Q_CheckCache(i) ==
    /\ tasks[i].pc = "check_cache"
    /\ LET row == check_cache(cache, tasks[i].command, now)
       IN IF Truthy(row.output)
          THEN /\ history' = hm_append_to_history(history,
                                 HistoryEntry(tasks[i].command, row.output, row.generated_command,
                                              "Success (Cached)", None, TRUE, now),
                                 max_history_size)
               /\ tasks' = [tasks EXCEPT ![i].pc = "done", ![i].output = row.output]
               /\ obs' = [obs EXCEPT !.logged = Append(@, i), !.completed = Append(@, i)]
          ELSE /\ tasks' = [tasks EXCEPT ![i].pc = "execute"]
               /\ UNCHANGED <<history, obs>>
    /\ UNCHANGED cache
    /\ ConcurrentFrame

\* await execute_script_interactively resumes; handle_command_output appends the
\* entry and runs to its await of cache_command
Q_Execute(i, child) ==
    /\ tasks[i].pc = "execute"
    /\ LET output == execute_single_command(child)
       IN /\ history' = hm_append_to_history(history,
                            HistoryEntry(tasks[i].command, output, <<"ls">>,
                                         OutputStatus(output),
                                         IF IsError(output) THEN output ELSE None, FALSE, now),
                            max_history_size)
          /\ tasks' = [tasks EXCEPT ![i].pc = "cache_command", ![i].output = output]
    /\ obs' = [obs EXCEPT !.logged = Append(@, i)]
    /\ UNCHANGED cache
    /\ ConcurrentFrame

\* await cache_command resumes: the row is saved, process_command returns output
Q_Return(i) ==
    /\ tasks[i].pc = "cache_command"
    /\ cache' = save_cache(cache, tasks[i].command, last_generated_command,
                           tasks[i].output, now)
    /\ tasks' = [tasks EXCEPT ![i].pc = "done"]
    /\ obs' = [obs EXCEPT !.completed = Append(@, i)]
    /\ UNCHANGED history
    /\ ConcurrentFrame

NextConcurrent ==
    \/ \E i \in Invocations, k \in Keys, uc \in BOOLEAN : Q_Start(i, k, uc)
    \/ \E i \in Invocations : Q_CheckCache(i)
    \/ \E i \in Invocations, child \in ConcurrentChildren : Q_Execute(i, child)
    \/ \E i \in Invocations : Q_Return(i)

SpecConcurrent == InitConcurrent /\ [][NextConcurrent]_vars

\* the place of invocation i in a sequence of invocations
Position(s, i) == CHOOSE k \in 1..Len(s) : s[k] = i

Before(s, a, b) == Position(s, a) < Position(s, b)

\* C19: when several invocations run concurrently on a shared history, their
\* entries appear in the log in the order in which the invocations completed
\* (returned), not the order in which they started
C19_LogInCompletionOrder ==
    obs.entry = "concurrent" =>
    \A a, b \in Elems(obs.completed) :
        a # b => (Before(obs.logged, a, b) <=> Before(obs.completed, a, b))

-----------------------------------------------------------------------------
(* Termination of an invocation of command.py: the event loop keeps running
   whatever coroutine is ready, so a step that can be taken is taken *)

FairSpec == Spec /\ WF_vars(Next)

\* C20: the runner enforces its timeout: when the child has not completed, run
\* still returns in the end without the child exiting on its own, so the
\* invocation terminates even for a child that never exits
C20_TimeoutEnforced == (pc = "p1_wait") ~> Done

-----------------------------------------------------------------------------
(* The process runners: CommandExecutor.execute_command and
   execute_command_with_progress (ai_shell/command/command_executor.py) and
   execute_command (ai_shell/utils/command_executor.py), with a clock, a child
   process that writes and exits on its own schedule, and the interrupt handler
   of ai_shell/cli.py *)

MaxRunnerTicks == 2

Runners == {"executor", "utils", "progress"}

\* a program that writes its output and then stays alive
Hang(stdout) == [kind |-> "hang", stdout |-> stdout, stderr |-> <<>>]

RunnerPrograms ==
    {c \in ChildOutcomes : c.kind = "exit"} \cup {Hang(<<>>), Hang(<<"O1", "\n">>)}

RunnerDelays == {1, default_timeout - 1, default_timeout}

\* the lines a stream holds
StreamLines(data) ==
    IF data = <<>> THEN <<>>
    ELSE LET parts == Split(data, "\n")
         IN IF parts[Len(parts)] = <<>> THEN SubSeq(parts, 1, Len(parts) - 1) ELSE parts

NoProcess == [prog |-> NoChild, alive |-> FALSE, signalled |-> FALSE, sent |-> 0]

Process(prog) == [prog |-> prog, alive |-> TRUE, signalled |-> FALSE, sent |-> 0]

\* what a runner returns: the text, the exit code and the return statement taken
RunResult(output, code, via) ==
    [kind |-> "run", output |-> output, code |-> code, via |-> via]

RunnerLoc0 == [runner |-> "none", timeout |-> default_timeout, start_time |-> 0, read |-> 0]

InitRunner ==
    /\ pc = "r_idle"
    /\ loc = RunnerLoc0
    /\ ret = NoRet
    /\ history = <<>>
    /\ cache = <<>>
    /\ last_generated_command = <<>>
    /\ now = 0
    /\ invocations = 0
    /\ db_faults = 0
    /\ disk = <<>>
    /\ tasks = <<NoProcess>>
    /\ obs = [entry |-> "runner", ticks |-> 0, interrupted |-> FALSE]

RunnerFrame ==
    UNCHANGED <<history, cache, last_generated_command, invocations, db_faults, disk>>

\* process.terminate()
terminate(p) == [p EXCEPT !.signalled = TRUE]

\* the runner is called and creates the subprocess, unless that raises
R_Call(runner, prog, spawn_ok) ==
    /\ pc = "r_idle"
    /\ loc' = [RunnerLoc0 EXCEPT !.runner = runner, !.start_time = now]
    /\ IF spawn_ok
       THEN /\ tasks' = <<Process(prog)>>
            /\ pc' = IF runner = "progress" THEN "r_reading" ELSE "r_waiting"
            /\ UNCHANGED ret
       ELSE /\ UNCHANGED tasks
            /\ IF runner = "progress"
               THEN /\ pc' = "r_raised"
                    /\ ret' = Raised("create_subprocess_shell")
               ELSE /\ pc' = "r_returned"
                    /\ ret' = RunResult(<<"Error:", " ", "spawn failed">>, 1, "exception")
    /\ UNCHANGED <<obs, now>>
    /\ RunnerFrame

\* the child writes one more line of its output
C_Write ==
    /\ tasks[1].alive
    /\ tasks[1].sent < Len(StreamLines(tasks[1].prog.stdout))
    /\ tasks' = <<[tasks[1] EXCEPT !.sent = @ + 1]>>
    /\ UNCHANGED <<pc, loc, ret, obs, now>>
    /\ RunnerFrame

\* the child has written everything and exits with its return code
C_Exit ==
    /\ tasks[1].alive
    /\ tasks[1].prog.kind = "exit"
    /\ tasks[1].sent = Len(StreamLines(tasks[1].prog.stdout))
    /\ tasks' = <<[tasks[1] EXCEPT !.alive = FALSE]>>
    /\ UNCHANGED <<pc, loc, ret, obs, now>>
    /\ RunnerFrame

\* a child that was sent SIGTERM and does not ignore it dies
C_Die ==
    /\ tasks[1].alive
    /\ tasks[1].signalled
    /\ tasks' = <<[tasks[1] EXCEPT !.alive = FALSE,
                                   !.prog = [kind |-> "exit", rc |-> -15,
                                             stdout |-> @.stdout, stderr |-> <<>>]]>>
    /\ UNCHANGED <<pc, loc, ret, obs, now>>
    /\ RunnerFrame

\* time passes; a pending wait_for fires at its deadline, not after it
R_Tick(d) ==
    /\ obs.ticks < MaxRunnerTicks
    /\ pc = "r_waiting" => now + d <= loc.start_time + loc.timeout
    /\ now' = now + d
    /\ obs' = [obs EXCEPT !.ticks = @ + 1]
    /\ UNCHANGED <<pc, loc, ret, tasks>>
    /\ RunnerFrame

\* communicate() returns within the timeout
R_Communicate ==
    /\ pc = "r_waiting"
    /\ ~tasks[1].alive
    /\ LET p == tasks[1].prog
           output == Strip(p.stdout)
           error_output == Strip(p.stderr)
       IN ret' = IF loc.runner = "executor"
                 THEN IF p.rc # 0
                      THEN RunResult(<<"Error:", " ">> \o error_output, p.rc, "completed")
                      ELSE RunResult(output, p.rc, "completed")
                 ELSE RunResult(IF p.stdout # <<>> THEN output ELSE error_output,
                                p.rc, "completed")
    /\ pc' = "r_returned"
    /\ UNCHANGED <<loc, obs, now, tasks>>
    /\ RunnerFrame

\* wait_for raises TimeoutError: the executor terminates the child, utils does not
R_Timeout ==
    /\ pc = "r_waiting"
    /\ tasks[1].alive
    /\ now - loc.start_time >= loc.timeout
    /\ tasks' = IF loc.runner = "executor" THEN <<terminate(tasks[1])>> ELSE tasks
    /\ ret' = RunResult(TimeoutMessage, 1, "timeout")
    /\ pc' = "r_returned"
    /\ UNCHANGED <<loc, obs, now>>
    /\ RunnerFrame

\* execute_command_with_progress: the next line arrives; only then is the time looked at
R_ReadLine ==
    /\ pc = "r_reading"
    /\ loc.read < tasks[1].sent
    /\ loc' = [loc EXCEPT !.read = @ + 1]
    /\ IF now - loc.start_time > loc.timeout
       THEN /\ tasks' = <<terminate(tasks[1])>>
            /\ ret' = RunResult(<<"Error:", " ", TimedOutPhrase>>, 1, "timeout")
            /\ pc' = "r_returned"
       ELSE UNCHANGED <<tasks, ret, pc>>
    /\ UNCHANGED <<obs, now>>
    /\ RunnerFrame

\* execute_command_with_progress: stdout ends, process.wait() returns
R_Eof ==
    /\ pc = "r_reading"
    /\ ~tasks[1].alive
    /\ loc.read = tasks[1].sent
    /\ LET p == tasks[1].prog
           lines == SubSeq(StreamLines(p.stdout), 1, loc.read)
           output == [k \in 1..Len(lines) |-> Strip(lines[k])]
       IN ret' = RunResult(Join(IF p.rc # 0 THEN Append(output, Strip(p.stderr)) ELSE output,
                                "\n"),
                           p.rc, "completed")
    /\ pc' = "r_returned"
    /\ UNCHANGED <<loc, obs, now, tasks>>
    /\ RunnerFrame

\* SIGINT while the child is in flight: handle_interrupt_signal calls sys.exit,
\* the running task is cancelled and CancelledError is thrown into the runner;
\* only execute_command_with_progress catches it
R_Interrupt ==
    /\ pc \in {"r_waiting", "r_reading"}
    /\ tasks' = IF loc.runner = "progress" THEN <<terminate(tasks[1])>> ELSE tasks
    /\ ret' = IF loc.runner = "progress"
              THEN RunResult(<<"Error:", " ", "Command execution was cancelled">>, 1, "cancelled")
              ELSE Raised("CancelledError")
    /\ obs' = [obs EXCEPT !.interrupted = TRUE]
    /\ pc' = "r_unwound"
    /\ UNCHANGED <<loc, now>>
    /\ RunnerFrame

NextRunner ==
    \/ \E r \in Runners, p \in RunnerPrograms, ok \in BOOLEAN : R_Call(r, p, ok)
    \/ C_Write
    \/ C_Exit
    \/ C_Die
    \/ \E d \in RunnerDelays : R_Tick(d)
    \/ R_Communicate
    \/ R_Timeout
    \/ R_ReadLine
    \/ R_Eof
    \/ R_Interrupt

SpecRunner == InitRunner /\ [][NextRunner]_vars

InRunner == obs.entry = "runner"

TimeoutResult == InRunner /\ pc = "r_returned" /\ ret.via = "timeout"

\* C21: whenever the runner returns a timed-out result, it has sent a
\* termination signal to the child it spawned
C21_TimeoutSignalsChild == TimeoutResult => tasks[1].signalled

\* C22: a timed-out result carries the reserved exit code 124
C22_TimeoutExitCode == TimeoutResult => ret.code = 124

\* C29: once an interrupt that arrived while a child was in flight has been
\* handled, the child has been sent a termination signal or is gone
C29_InterruptTerminatesChild ==
    (InRunner /\ pc = "r_unwound") => (tasks[1].signalled \/ ~tasks[1].alive)

\* C30: the streaming runner does not go on waiting for the child once the
\* overall timeout has elapsed
C30_ProgressTimeout ==
    (InRunner /\ loc.runner = "progress" /\ pc = "r_reading")
    => now - loc.start_time <= loc.timeout

-----------------------------------------------------------------------------
(* Conflict detection and resolution: ai_shell/conflict_resolver.py,
   ai_shell/utils/conflict_resolver.py and AIShell._handle_conflict.
   A command is a sequence of text fragments whose concatenation is the
   string; the file system maps each existing path to "file" or "dir" *)

MaxConflictOps == 2

Resolvers == {"ai_shell", "utils"}

Strategies == {"remove", "rename", "abort"}

P_d == <<"d">>

P_f == <<"f", ".txt">>

ConflictCommands ==
    { <<"mkdir", " ">> \o P_d,
      <<"touch", " ">> \o P_f,
      <<"cp", " ", "backup/">> \o P_f \o <<" ">> \o P_f,
      <<"git", " ", "clone", " ", "url", " ">> \o P_d,
      <<"mv", "n", " ", "package", " ">> \o P_d,
      <<"echo", " ">> \o P_d }

Suffix(n) == <<"_1", "_2", "_3", "_4">>[n]

Exts == {".txt"}

FileSystems ==
    { <<>>,
      [p \in {P_d} |-> "dir"],
      [p \in {P_d, <<"d", "_1">>} |-> "dir"],
      [p \in {P_d, <<"d", "_new">>} |-> "dir"],
      [p \in {P_f} |-> "file"],
      [p \in {P_f, <<"f", "_1", ".txt">>, <<"backup/", "f", ".txt">>} |-> "file"] }

\* str.split(): the fields between runs of whitespace
RECURSIVE FieldsFrom(_, _)
FieldsFrom(s, cur) ==
    IF s = <<>> THEN (IF cur = <<>> THEN <<>> ELSE <<cur>>)
    ELSE IF Head(s) \in WS
    THEN (IF cur = <<>> THEN <<>> ELSE <<cur>>) \o FieldsFrom(Tail(s), <<>>)
    ELSE FieldsFrom(Tail(s), Append(cur, Head(s)))

Fields(s) == FieldsFrom(s, <<>>)

LastField(s) == Fields(s)[Len(Fields(s))]

\* str.replace(old, new): every occurrence, from the left
RECURSIVE Replace(_, _, _)
Replace(s, old, new) ==
    IF s = <<>> THEN <<>>
    ELSE IF StartsWith(s, old) THEN new \o Replace(SubSeq(s, Len(old) + 1, Len(s)), old, new)
    ELSE <<Head(s)>> \o Replace(Tail(s), old, new)

exists(fs, path) == path \in DOMAIN fs

Without(fs, gone) == [p \in DOMAIN fs \ gone |-> fs[p]]

\* the message that names the path
Conflict(text, path) == <<text>> \o path

\* ai_shell/conflict_resolver.py: detect_conflict
detect_conflict(fs, command) ==
    IF (\E verb \in {"mkdir", "touch", "cp", "mv"} : StartsWith(command, <<verb>>))
       /\ exists(fs, LastField(command))
    THEN Conflict("Path already exists: ", LastField(command))
    ELSE None

\* ai_shell/utils/conflict_resolver.py: detect_conflict
utils_detect_conflict(fs, command) ==
    IF StartsWith(command, <<"git", " ", "clone">>)
    THEN IF exists(fs, LastField(command))
         THEN Conflict("Path already exists: ", LastField(command)) ELSE None
    ELSE IF StartsWith(command, <<"mkdir">>) \/ StartsWith(command, <<"touch">>)
    THEN IF exists(fs, LastField(command))
         THEN Conflict("Path already exists: ", LastField(command)) ELSE None
    ELSE IF StartsWith(command, <<"mv">>) \/ StartsWith(command, <<"cp">>)
    THEN IF exists(fs, LastField(command))
         THEN Conflict("Destination already exists: ", LastField(command)) ELSE None
    ELSE None

\* os.path.splitext
splitext(path) ==
    IF path # <<>> /\ path[Len(path)] \in Exts
    THEN [base |-> SubSeq(path, 1, Len(path) - 1), ext |-> <<path[Len(path)]>>]
    ELSE [base |-> path, ext |-> <<>>]

\* _generate_unique_name: the first counter whose name is free
RECURSIVE unique_name_from(_, _, _)
unique_name_from(fs, path, counter) ==
    LET name == splitext(path).base \o <<Suffix(counter)>> \o splitext(path).ext
    IN IF exists(fs, name)
       THEN unique_name_from(fs, path, counter + 1)
       ELSE name

generate_unique_name(fs, path) == unique_name_from(fs, path, 1)

\* clone_different_location
clone_different_location(path) == path \o <<"_new">>

AbortSentinel == <<"Operation aborted due to conflict.">>

\* os.remove: a file goes, anything else raises
os_remove(fs, path) ==
    IF exists(fs, path) /\ fs[path] = "file"
    THEN [raised |-> FALSE, fs |-> Without(fs, {path})]
    ELSE [raised |-> TRUE, fs |-> fs]

\* shutil.rmtree(path, ignore_errors=True): a directory goes with all below it
rmtree(fs, path) ==
    IF exists(fs, path) /\ fs[path] = "dir"
    THEN Without(fs, {p \in DOMAIN fs : StartsWith(p, path)
                                        /\ (p = path \/ path[Len(path)] = "/")})
    ELSE fs

\* resolve_conflict of either module: what it returns and the file system it leaves
resolve_conflictRenameRemoves(resolver, fs, strategy, original_command) ==
    LET path == LastField(original_command)
    IN IF resolver = "ai_shell"
       THEN IF strategy = "remove"
            THEN LET r == os_remove(fs, path)
                 IN [ret |-> IF r.raised THEN Raised("os.remove")
                             ELSE Returned(original_command),
                     fs |-> r.fs]
            ELSE IF strategy = "rename"
            THEN [ret |-> Returned(Replace(original_command, path,
                                           generate_unique_name(fs, path))),
                  fs |-> os_remove(fs, path).fs]
            ELSE [ret |-> Returned(AbortSentinel), fs |-> fs]
       ELSE IF strategy = "remove"
            THEN [ret |-> Returned(original_command), fs |-> rmtree(fs, path)]
            ELSE IF strategy = "rename"
            THEN [ret |-> Returned(Replace(original_command, path,
                                           clone_different_location(path))),
                  fs |-> rmtree(fs, path)]
            ELSE [ret |-> Raised("ValueError"), fs |-> fs]

resolve_conflict(resolver, fs, strategy, original_command) ==
    LET path == LastField(original_command)
    IN IF resolver = "ai_shell"
       THEN IF strategy = "remove"
            THEN LET r == os_remove(fs, path)
                 IN [ret |-> IF r.raised THEN Raised("os.remove")
                             ELSE Returned(original_command),
                     fs |-> r.fs]
            ELSE IF strategy = "rename"
            THEN [ret |-> Returned(Replace(original_command, path,
                                           generate_unique_name(fs, path))),
                  fs |-> fs]
            ELSE [ret |-> Returned(AbortSentinel), fs |-> fs]
       ELSE IF strategy = "remove"
            THEN [ret |-> Returned(original_command), fs |-> rmtree(fs, path)]
            ELSE IF strategy = "rename"
            THEN [ret |-> Returned(Replace(original_command, path,
                                           clone_different_location(path))),
                  fs |-> fs]
            ELSE [ret |-> Raised("ValueError"), fs |-> fs]

ConflictLoc0 == [resolver |-> "none", command |-> <<>>, conflict |-> None]

ConflictObs(ops) ==
    [entry |-> "conflict", ops |-> ops, op |-> "none", strategy |-> "none", before |-> <<>>]

InitConflict ==
    /\ pc = "c_idle"
    /\ loc = ConflictLoc0
    /\ ret = NoRet
    /\ history = <<>>
    /\ cache = <<>>
    /\ last_generated_command = <<>>
    /\ now = 0
    /\ invocations = 0
    /\ db_faults = 0
    /\ tasks = <<>>
    /\ disk \in FileSystems
    /\ obs = ConflictObs(0)

ConflictFrame ==
    UNCHANGED <<history, cache, last_generated_command, now, invocations, db_faults, tasks>>

\* detect_conflict(command) of one of the two modules
D_Detect(resolver, command) ==
    /\ pc = "c_idle"
    /\ obs.ops < MaxConflictOps
    /\ loc' = [resolver |-> resolver, command |-> command,
               conflict |-> IF resolver = "ai_shell" THEN detect_conflict(disk, command)
                            ELSE utils_detect_conflict(disk, command)]
    /\ obs' = [ConflictObs(obs.ops + 1) EXCEPT !.op = "detect"]
    /\ ret' = NoRet
    /\ pc' = "c_detected"
    /\ UNCHANGED disk
    /\ ConflictFrame

\* resolve_conflict(conflict, resolution, original_command)
D_Resolve(strategy) ==
    /\ pc = "c_detected"
    /\ LET r == resolve_conflict(loc.resolver, disk, strategy, loc.command)
       IN /\ ret' = r.ret
          /\ disk' = r.fs
    /\ obs' = [obs EXCEPT !.op = "resolve", !.strategy = strategy, !.before = disk]
    /\ pc' = "c_resolved"
    /\ UNCHANGED loc
    /\ ConflictFrame

\* AIShell._handle_conflict: the command it hands back to be run; no options or
\* a cancelled prompt hand back the original command
D_HandleConflict(has_options, choice) ==
    /\ pc = "c_detected"
    /\ loc.resolver = "utils"
    /\ loc.conflict # None
    /\ IF ~has_options \/ choice = "cancel"
       THEN /\ ret' = Returned(loc.command)
            /\ UNCHANGED disk
       ELSE LET r == resolve_conflict("utils", disk, choice, loc.command)
            IN /\ ret' = r.ret
               /\ disk' = r.fs
    /\ obs' = [obs EXCEPT !.op = "handle",
                          !.strategy = IF has_options THEN choice ELSE "none",
                          !.before = disk]
    /\ pc' = "c_resolved"
    /\ UNCHANGED loc
    /\ ConflictFrame

\* the next command
D_Next ==
    /\ pc = "c_resolved"
    /\ pc' = "c_idle"
    /\ loc' = ConflictLoc0
    /\ ret' = NoRet
    /\ UNCHANGED <<obs, disk>>
    /\ ConflictFrame

NextConflict ==
    \/ \E r \in Resolvers, c \in ConflictCommands : D_Detect(r, c)
    \/ \E s \in Strategies : D_Resolve(s)
    \/ \E o \in BOOLEAN, c \in Strategies \cup {"cancel"} : D_HandleConflict(o, c)
    \/ D_Next

SpecConflict == InitConflict /\ [][NextConflict]_vars

InConflict == obs.entry = "conflict"

Resolved == InConflict /\ pc = "c_resolved"

Verbs == {<<"mkdir">>, <<"touch">>, <<"cp">>, <<"mv">>}

\* the command's verb is one of mkdir, touch, cp, mv or git clone
HasConflictVerb(command) ==
    LET f == Fields(command)
    IN /\ f # <<>>
       /\ \/ f[1] \in Verbs
          \/ Len(f) >= 2 /\ f[1] = <<"git">> /\ f[2] = <<"clone">>

\* C25: detect reports a conflict exactly when the verb is one of mkdir, touch,
\* cp, mv or git clone and the final argument names an existing path; for any
\* other verb it reports none
C25_DetectExactly ==
    (InConflict /\ pc = "c_detected")
    => ((loc.conflict # None)
        <=> (HasConflictVerb(loc.command) /\ exists(disk, LastField(loc.command))))

\* the path with the suffix _n before its extension
Suffixed(path, n) == splitext(path).base \o <<Suffix(n)>> \o splitext(path).ext

\* C26: rename returns the original command with only its final path argument
\* replaced, by that path with the lowest suffix _N that does not exist; every
\* other token is unchanged
C26_RenameLowestSuffix ==
    (Resolved /\ obs.op = "resolve" /\ obs.strategy = "rename" /\ ret.kind = "value")
    => LET was == Fields(loc.command)
           got == Fields(ret.val)
           path == LastField(loc.command)
       IN /\ Len(got) = Len(was)
          /\ \A k \in 1..(Len(was) - 1) : got[k] = was[k]
          /\ \E n \in 1..4 :
                /\ got[Len(got)] = Suffixed(path, n)
                /\ \A m \in 1..(n - 1) : exists(obs.before, Suffixed(path, m))
          /\ ~exists(obs.before, got[Len(got)])

\* C24: resolve changes the file system only under the remove strategy, and
\* then returns the original command unchanged; rename and abort delete nothing
C24_OnlyRemoveDeletes ==
    Resolved
    => /\ disk # obs.before => (obs.strategy = "remove" /\ ret = Returned(loc.command))
       /\ (obs.strategy = "remove" /\ ret.kind = "value") => ret.val = loc.command
       /\ obs.strategy \in {"rename", "abort"} => disk = obs.before

C24_Witness ==
    /\ Resolved
    /\ obs.strategy = "remove"
    /\ disk # obs.before
    /\ ret = Returned(loc.command)

\* C23: a conflict resolved with abort, or whose prompt the user cancels, hands
\* no command back to be executed
C23_AbortNeverExecutes ==
    (Resolved /\ obs.op = "handle" /\ obs.strategy \in {"abort", "cancel"})
    => ~(ret.kind = "value" /\ ret.val # AbortSentinel)

-----------------------------------------------------------------------------
(* Both pipelines with instructions that start with an alias or differ from a
   cached instruction only in case or in surrounding whitespace *)

I_List == <<"List", " ", "files">>

I_padded == <<" ", "list", " ", "files">>

AliasInstructions == {I_list, I_alias, I_List, I_padded}

NextAlias ==
    \/ \E i \in AliasInstructions, sim \in BOOLEAN : P1_Start(i, sim)
    \/ \E f \in BOOLEAN : P1_CheckCache(f)
    \/ \E llm \in LlmOutcomes : P1_Generate(llm)
    \/ \E run \in P1ChildOutcomes : P1_Execute(run)
    \/ P1_Poll
    \/ \E f \in BOOLEAN : P1_Record(f)
    \/ \E i \in AliasInstructions, uc \in BOOLEAN, sim \in BOOLEAN : V2_Start(i, uc, sim)
    \/ \E llm \in LlmOutcomesV2 : V2_Generate(llm)
    \/ \E c \in Choices, e \in Edits : V2_Confirm(c, e)
    \/ \E f \in BOOLEAN : P2_CheckCache(f)
    \/ \E child \in ChildOutcomes, u \in UserInputs : P2_Line(child, u)
    \/ \E f \in BOOLEAN : P2_Record(f)
    \/ Return

SpecAlias == Init /\ [][NextAlias]_vars

\* the instruction with its alias expanded: the expansion, then the remaining tokens
Rewritten(instruction) ==
    LET f == Fields(instruction)
    IN IF f # <<>> /\ Len(f[1]) = 1 /\ f[1][1] \in DOMAIN Aliases
       THEN Aliases[f[1][1]] \o <<" ">> \o Join(Tail(f), " ")
       ELSE instruction

\* C27: alias resolution comes first and is a pure rewrite: the cache check and
\* every later stage use the instruction with the alias expanded, and an
\* instruction that starts with no alias is passed on unchanged
C27_AliasResolvedFirst ==
    (InP1 \/ InV2)
    => /\ pc \in {"p1_check_cache", "p2_check_cache"} => loc.command = Rewritten(obs.given)
       /\ obs.trail # <<>> => obs.trail[1].prompt = Rewritten(obs.given)

Lower(token) == IF token = "List" THEN "list" ELSE token

\* trimmed and lower-cased
Normalized(instruction) ==
    [k \in DOMAIN Strip(instruction) |-> Lower(Strip(instruction)[k])]

\* C28: an instruction that differs from a cached one only in surrounding
\* whitespace or letter case addresses the same cache entry and is a hit
C28_NormalizedCacheKey ==
    (/\ Done /\ InP1 /\ ret.kind = "value"
     /\ \E k \in DOMAIN obs.cacheBase :
            /\ LiveRow(obs.cacheBase, k) /\ Truthy(obs.cacheBase[k].output)
            /\ Normalized(obs.given) = Normalized(k))
    => /\ obs.genCalls = 0
       /\ Last(history).used_cache

\* C31: when the child completes, the runner's output is the child's stdout
\* when that is non-empty and its stderr otherwise, trimmed, and the exit code
\* returned is the child's exit status, for zero and non-zero exits alike
C31_OutputAndExitStatus ==
    (InRunner /\ pc = "r_returned" /\ ret.via = "completed"
     /\ loc.runner \in {"executor", "utils"})
    => LET p == tasks[1].prog
       IN /\ ret.output = Strip(IF p.stdout # <<>> THEN p.stdout ELSE p.stderr)
          /\ ret.code = p.rc

-----------------------------------------------------------------------------
(* AIShell.process_command: the result it builds from the executor's pair *)

\* the exit status the executor reports for a child
ReportedExitCode(child) == IF child.kind = "exit" THEN child.rc ELSE 1

Executed == Done /\ InA1 /\ obs.execCalls = 1

-----------------------------------------------------------------------------
(* The two entry points of ai_shell/ai_shell.py that ask for confirmation *)

NextConfirm ==
    \/ \E i \in Instructions, ok \in BOOLEAN : A1_Start(i, ok)
    \/ \E llm \in LlmOutcomes : A1_Generate(llm)
    \/ \E c \in Choices, e \in Edits : A1_Confirm(c, e)
    \/ \E child \in ChildOutcomes : A1_Execute(child)
    \/ \E i \in Instructions, uc \in BOOLEAN, sim \in BOOLEAN : V2_Start(i, uc, sim)
    \/ \E llm \in LlmOutcomesV2 : V2_Generate(llm)
    \/ \E c \in Choices, e \in Edits : V2_Confirm(c, e)
    \/ \E f \in BOOLEAN : P2_CheckCache(f)
    \/ \E child \in ChildOutcomes, u \in UserInputs : P2_Line(child, u)
    \/ \E f \in BOOLEAN : P2_Record(f)
    \/ Return

SpecConfirm == Init /\ [][NextConfirm]_vars

Confirmed == obs.choice \in {<<>>, <<"e">>}

-----------------------------------------------------------------------------
(* get_recent_commands of both history owners *)

MaxLimit == 4

Limits == 0..MaxLimit

\* entry.command of the entry made by append number e
EntryCommand(e) == <<"command", e>>

\* s[start:] of Python: a negative start counts from the end, and -0 is 0
SliceFrom(s, start) ==
    LET lo == IF start < 0
              THEN (IF Len(s) + start < 0 THEN 0 ELSE Len(s) + start)
              ELSE (IF start > Len(s) THEN Len(s) ELSE start)
    IN  SubSeq(s, lo + 1, Len(s))

\* [entry.command for entry in self.history[-limit:]]
get_recent_commands(h, limit) ==
    LET recent == SliceFrom(h, 0 - limit)
    IN  [i \in 1..Len(recent) |-> EntryCommand(recent[i])]

Recent(h, limit, value) == [kind |-> "recent", of |-> h, limit |-> limit, value |-> value]

H_Recent(limit) ==
    /\ ret' = Recent(history, limit, get_recent_commands(history, limit))
    /\ UNCHANGED <<pc, loc, obs, history, cache, last_generated_command, now,
                   invocations, db_faults, tasks, disk>>

NextRecent ==
    \/ H_Append
    \/ H_Clear
    \/ \E i \in 1..MaxTasks : S_Run(i)
    \/ \E i \in 1..MaxTasks : S_Open(i)
    \/ \E i \in 1..MaxTasks : S_Write(i)
    \/ \E i \in 1..MaxTasks : S_Close(i)
    \/ \E n \in Limits : H_Recent(n)

SpecRecent ==
    InitHistoryWith(Budget(MaxAppends, MaxClears, 0, MaxTasks)) /\ [][NextRecent]_vars

\* C34: recent(n) returns exactly the last min(n, len(history)) entries of the
\* history in chronological order, for every n >= 0, so recent(0) is empty
C34_RecentLastN ==
    ret.kind = "recent"
    => LET k == IF ret.limit < Len(ret.of) THEN ret.limit ELSE Len(ret.of)
       IN  /\ Len(ret.value) = k
           /\ \A i \in 1..k :
                ret.value[i] = EntryCommand(ret.of[Len(ret.of) - k + i])

-----------------------------------------------------------------------------
(* What follows a successful execution in process_command of command.py *)

\* attempt k ran its script to a successful end
SucceededAt(k) ==
    /\ ChildSucceeded(obs.trail[k].child)
    /\ obs.trail[k].output # None
    /\ ~IsError(obs.trail[k].output)

\* C36: within one invocation, once an execution attempt has completed
\* successfully there is no further generation and no further execution, even
\* if recording the result afterwards raises
C36_NothingAfterSuccess ==
    InP1 => \A k \in 1..Len(obs.trail) :
              SucceededAt(k) => /\ k = Len(obs.trail)
                                /\ obs.genCalls = k
                                /\ obs.execCalls <= k

-----------------------------------------------------------------------------
(* The same instruction processed twice by process_command of command.py *)

\* a script that prints nothing and exits 0
Silent == [kind |-> "exit", rc |-> 0, stdout |-> <<>>, stderr |-> <<>>]

RepeatChildOutcomes ==
    {[child |-> c, after |-> 0] :
        c \in {Silent} \cup {c \in ChildOutcomes : c.kind = "exit"}}

\* the first call has returned its captured output, not from the cache
SucceededNonCached ==
    /\ pc = "done"
    /\ InP1
    /\ ~loc.simulation_mode
    /\ obs.execCalls > 0
    /\ ret.kind = "value"
    /\ ~IsFailureValue(ret.val)
    /\ ~Last(history).used_cache

\* the caller takes that result and calls process_command(command) again at once
P1_Again(command) ==
    /\ SucceededNonCached
    /\ command = obs.given
    /\ LET aliased == resolve_alias(command)
           resolved == IF Truthy(aliased) THEN aliased ELSE command
       IN /\ loc' = [Loc0 EXCEPT !.command = resolved]
          /\ obs' = [Obs0 EXCEPT !.entry = "again", !.orig = resolved, !.given = command,
                                 !.histBase = Len(history), !.cacheBase = cache]
    /\ ret' = NoRet
    /\ pc' = "p1_check_cache"
    /\ UNCHANGED <<history, cache, last_generated_command, now, invocations, db_faults>>
    /\ UNCHANGED <<tasks, disk>>

NextRepeat ==
    \/ \E i \in Instructions, sim \in BOOLEAN : P1_Start(i, sim)
    \/ \E f \in BOOLEAN : P1_CheckCache(f)
    \/ \E llm \in LlmOutcomes : P1_Generate(llm)
    \/ \E run \in RepeatChildOutcomes : P1_Execute(run)
    \/ \E f \in BOOLEAN : P1_Record(f)
    \/ \E i \in Instructions : P1_Again(i)

SpecRepeat == Init /\ [][NextRepeat]_vars

InAgain == obs.entry = "again"

\* C37: after process(i) succeeds non-cached with captured output O, an
\* immediately following process(i) is served from the cache with zero LLM
\* calls and zero executions, for every O including the empty string
C37_SecondCallServedFromCache ==
    InAgain
    => /\ obs.genCalls = 0
       /\ obs.execCalls = 0
       /\ pc # "p1_generate"
       /\ (Done /\ ret.kind # "raised")
            => /\ ret = Returned(history[obs.histBase].output)
               /\ Last(history).used_cache

-----------------------------------------------------------------------------
(* Simulation mode and the cache *)

SimulationText == "[Simulation] Would execute:"

\* C38: an invocation run in simulation mode never writes to the cache, so
\* no row can later answer an instruction with "[Simulation] Would execute"
\* text in place of a real execution
C38_SimulationLeavesCache ==
    /\ (InP1 /\ loc.simulation_mode) => cache = obs.cacheBase
    /\ \A k \in DOMAIN cache : ~Contains(cache[k].output, SimulationText)

-----------------------------------------------------------------------------
(* ai_shell/cli.py: one-shot mode, the instruction given on the command line *)

\* main: handle_initial_command shows the output if there is one and returns
\* True; an exception of process_command is caught and printed; either way
\* main returns normally and asyncio.run(main()) ends the process
main(result) ==
    IF result.kind = "raised"
    THEN [shown |-> <<"Unexpected error">>, status |-> 0]
    ELSE [shown |-> (IF result.val # None /\ Truthy(result.val) THEN result.val ELSE None),
          status |-> 0]

Exited(status, result) == [kind |-> "exit", status |-> status, result |-> result]

M_Exit ==
    /\ pc = "done"
    /\ InP1
    /\ pc' = "exited"
    /\ ret' = Exited(main(ret).status, ret)
    /\ UNCHANGED <<loc, obs, history, cache, last_generated_command, now,
                   invocations, db_faults, tasks, disk>>

NextOneShot ==
    \/ \E i \in Instructions, sim \in BOOLEAN : P1_Start(i, sim)
    \/ \E f \in BOOLEAN : P1_CheckCache(f)
    \/ \E llm \in LlmOutcomes : P1_Generate(llm)
    \/ \E run \in P1ChildOutcomes : P1_Execute(run)
    \/ P1_Poll
    \/ \E f \in BOOLEAN : P1_Record(f)
    \/ M_Exit

SpecOneShot == Init /\ [][NextOneShot]_vars

ProcessingSucceeded(result) == result.kind = "value" /\ ~IsFailureValue(result.val)

\* C33: in one-shot mode the exit status of the process is 0 when processing
\* the instruction succeeded and non-zero when it failed
C33_ExitStatusReflectsResult ==
    pc = "exited" => (ret.status = 0 <=> ProcessingSucceeded(ret.result))

-----------------------------------------------------------------------------
(* ai_shell/command/workflow_manager.py: WorkflowManager *)

MaxSteps == 2

MaxWorkflowCalls == 3

StepCommands == {<<"ls">>}

StepDependencies == {<<>>, <<"git">>}

\* check_and_install_dependency for the dependencies of a step, then the child
StepOutcomes ==
    {[deps |-> d, child |-> c] :
        d \in {"installed", "missing", "raise"},
        c \in {c \in ChildOutcomes :
                 \/ c.kind = "timeout"
                 \/ c.kind = "exit" /\ c.stdout \o c.stderr \in {<<"O1", "\n">>, <<"E1", "\n">>}}}

Step(command, dependencies) ==
    [command |-> command, dependencies |-> dependencies, status |-> "pending",
     output |-> <<>>, error |-> None]

WorkflowLoc0 == [current_workflow |-> <<>>, i |-> 0]

WorkflowObs == [entry |-> "workflow", op |-> "none", ran |-> <<>>]

InitWorkflow ==
    /\ pc = "idle"
    /\ loc = WorkflowLoc0
    /\ obs = WorkflowObs
    /\ ret = NoRet
    /\ history = <<>>
    /\ cache = <<>>
    /\ last_generated_command = <<>>
    /\ now = T0
    /\ invocations = 0
    /\ db_faults = 0
    /\ tasks = <<>>
    /\ disk = <<>>

WorkflowFrame ==
    UNCHANGED <<history, cache, last_generated_command, now, db_faults, tasks, disk>>

Statuses(workflow) == [j \in 1..Len(workflow) |-> workflow[j].status]

add_step(command, dependencies) ==
    /\ pc = "idle"
    /\ Len(loc.current_workflow) < MaxSteps
    /\ loc' = [loc EXCEPT !.current_workflow = Append(@, Step(command, dependencies))]
    /\ UNCHANGED <<pc, obs, ret, invocations>>
    /\ WorkflowFrame

\* execute_step: the step as it is left, and the value returned
execute_step(step, outcome) ==
    IF step.dependencies # <<>> /\ outcome.deps = "raise"
    THEN [step |-> [step EXCEPT !.status = "failed",
                                !.error = <<"Step execution error:", " ", "which failed">>],
          success |-> FALSE]
    ELSE IF step.dependencies # <<>> /\ outcome.deps = "missing"
    THEN [step |-> [step EXCEPT !.status = "failed",
                                !.error = <<"Dependency installation failed:", " ">>
                                              \o step.dependencies],
          success |-> FALSE]
    ELSE LET r == executor_execute_command(outcome.child)
             success == r.exit_code = 0
         IN  [step |-> [step EXCEPT
                          !.output = r.output,
                          !.status = IF success THEN "completed" ELSE "failed",
                          !.error = IF success THEN None
                                    ELSE <<"Command failed with return code", " ",
                                           RcText(r.exit_code)>>],
              success |-> success]

\* execute_workflow is called
execute_workflow ==
    /\ pc = "idle"
    /\ invocations < MaxWorkflowCalls
    /\ invocations' = invocations + 1
    /\ pc' = "w_loop"
    /\ loc' = [loc EXCEPT !.i = 1]
    /\ obs' = [obs EXCEPT !.op = "execute_workflow"]
    /\ ret' = NoRet
    /\ WorkflowFrame

\* one iteration of "for i, step in enumerate(self.current_workflow)", or its end
execute_workflow_loop(outcome) ==
    /\ pc = "w_loop"
    /\ IF loc.i > Len(loc.current_workflow)
       THEN /\ ret' = Returned(TRUE)
            /\ pc' = "w_returned"
            /\ UNCHANGED <<loc, obs>>
       ELSE IF loc.current_workflow[loc.i].status = "pending"
       THEN LET r == execute_step(loc.current_workflow[loc.i], outcome)
            IN  /\ obs' = [obs EXCEPT !.ran = Append(@, [i |-> loc.i,
                                           before |-> Statuses(loc.current_workflow)])]
                /\ IF r.success
                   THEN /\ loc' = [loc EXCEPT !.current_workflow[loc.i] = r.step,
                                              !.i = @ + 1]
                        /\ UNCHANGED <<pc, ret>>
                   ELSE /\ loc' = [loc EXCEPT !.current_workflow[loc.i] = r.step]
                        /\ ret' = Returned(FALSE)
                        /\ pc' = "w_returned"
       ELSE /\ loc' = [loc EXCEPT !.i = @ + 1]
            /\ UNCHANGED <<pc, obs, ret>>
    /\ UNCHANGED invocations
    /\ WorkflowFrame

\* resume_workflow: execute_workflow if a step is pending, else True
resume_workflow ==
    /\ pc = "idle"
    /\ invocations < MaxWorkflowCalls
    /\ invocations' = invocations + 1
    /\ obs' = [obs EXCEPT !.op = "resume_workflow"]
    /\ IF \E j \in 1..Len(loc.current_workflow) : loc.current_workflow[j].status = "pending"
       THEN /\ pc' = "w_loop"
            /\ loc' = [loc EXCEPT !.i = 1]
            /\ ret' = NoRet
       ELSE /\ pc' = "w_returned"
            /\ ret' = Returned(TRUE)
            /\ UNCHANGED loc
    /\ WorkflowFrame

\* the caller takes the value
W_Return ==
    /\ pc = "w_returned"
    /\ pc' = "idle"
    /\ ret' = NoRet
    /\ UNCHANGED <<loc, obs, invocations>>
    /\ WorkflowFrame

NextWorkflow ==
    \/ \E c \in StepCommands, d \in StepDependencies : add_step(c, d)
    \/ execute_workflow
    \/ \E o \in StepOutcomes : execute_workflow_loop(o)
    \/ resume_workflow
    \/ W_Return

SpecWorkflow == InitWorkflow /\ [][NextWorkflow]_vars

InWorkflow == obs.entry = "workflow"

AllCompleted ==
    \A j \in 1..Len(loc.current_workflow) : loc.current_workflow[j].status = "completed"

\* C39: execute_workflow and resume_workflow return True only if every step
\* of the workflow has status completed at the moment they return
C39_TrueMeansAllCompleted ==
    (InWorkflow /\ pc = "w_returned" /\ ret = Returned(TRUE)) => AllCompleted

\* C40: steps run strictly in order and a failure blocks everything after it:
\* no step is executed while an earlier step is failed (or still pending)
C40_FailureBlocksLaterSteps ==
    InWorkflow
    => \A k \in 1..Len(obs.ran) :
         \A j \in 1..(obs.ran[k].i - 1) : obs.ran[k].before[j] = "completed"

====
